---- MODULE Spec2Model ----
(***************************************************************************)
(* RFM69 packet-radio drivers of the repository: the transmitter driver    *)
(* (avionics_tx.py, build "tx"), the receiver driver (groundstation_rx.py, *)
(* build "rx") and the driver embedded in integrated_avionics.py (build    *)
(* "ia").  One step of the model is one bus exchange (spi.xfer2) or one    *)
(* control decision between two exchanges.  The chip is a register file    *)
(* that keeps the last value written; its status flags, version byte and   *)
(* FIFO bytes are read nondeterministically, and any exchange may raise.   *)
(***************************************************************************)
EXTENDS Integers, Sequences, FiniteSets, TLC

\* ---------------------------------------------------------------- registers
REG_FIFO == 0
REG_OPMODE == 1
REG_DATAMODUL == 2
REG_BITRATEMSB == 3
REG_BITRATELSB == 4
REG_FDEVMSB == 5
REG_FDEVLSB == 6
REG_FRFMSB == 7
REG_FRFMID == 8
REG_FRFLSB == 9
REG_VERSION == 16
REG_PALEVEL == 17
REG_OCP == 19
REG_LNA == 24
REG_RXBW == 25
REG_AFCBW == 26
REG_RSSICONFIG == 35
REG_RSSIVALUE == 36
REG_IRQFLAGS1 == 39
REG_IRQFLAGS2 == 40
REG_RSSITHRESH == 41
REG_PREAMBLEMSB == 44
REG_PREAMBLELSB == 45
REG_SYNCCONFIG == 46
REG_SYNCVALUE1 == 47
REG_SYNCVALUE2 == 48
REG_PACKETCONFIG1 == 55
REG_PAYLOADLENGTH == 56
REG_NODEADRS == 57
REG_BROADCASTADRS == 58
REG_FIFOTHRESH == 60
REG_PACKETCONFIG2 == 61
REG_TESTPA1 == 90
REG_TESTPA2 == 92
REG_TESTDAGC == 111

\* ------------------------------------------------------------ operating modes
MODE_SLEEP == 0
MODE_STANDBY == 4
MODE_FS == 8
MODE_TX == 12
MODE_RX == 16

Modes == {MODE_SLEEP, MODE_STANDBY, MODE_FS, MODE_TX, MODE_RX}

\* ------------------------------------------------------------ other constants
TX_POWER == 20
RADIO_FREQ_MHZ == 433
VERSION_OK == 36
BOOST_ON_PA1 == 93
BOOST_ON_PA2 == 124
BOOST_OFF_PA1 == 85
BOOST_OFF_PA2 == 112
MAX_SEND_LEN == 60
MAX_RX_LEN == 66
NODE_ADDRESS_TX == 1
NODE_ADDRESS_RX == 2
BROADCAST_ADDR == 255

\* ------------------------------------------------------------------- bounds
\* polling deadlines, in loop iterations (the code's 1.0 s, 2.0 s, 0.1 s)
ModeReadyTicks == 2
PacketSentTicks == 2
RssiDoneTicks == 1
\* receive(timeout): largest timeout, and the 2.0 s RSSI report period
RecvTicks == 2
RssiPeriodTicks == 1
\* bus exchanges of one operation are counted modulo MaxXfers + 1
MaxXfers == 8
\* longest message handed to send beyond the 60-byte limit
MsgOver == 15
\* power requests reach this far beyond the -2..20 dBm range
PowerMargin == 2
\* frequency requests reach this many 2 kHz steps above each carrier
FreqOffsets == 1

Builds == {"tx", "rx", "ia"}

VARIABLES
    build,          \* which script's RFM69 class this handle is
    is_high_power,  \* self.is_high_power (avionics_tx only; constructor argument)
    mode,           \* self.mode
    last_rssi,      \* self.last_rssi (groundstation_rx only)
    rssi_at_call,   \* self.last_rssi when the current operation was called
    chip,           \* chip registers: last value written (reset defaults before)
    bus_open,       \* the spidev handle is open
    pc,             \* position of the calling thread
    ret,            \* where _set_mode returns to
    op,             \* the driver operation in progress or last finished
    result,         \* value returned / exception raised by the last operation
    ip,             \* next entry of the constructor's bus program
    sm_target,      \* argument of the current/last _set_mode
    sm_from,        \* self.mode when that _set_mode was entered
    sm_base,        \* Len(wlog) when that _set_mode was entered
    sm_retry,       \* the _set_mode before it had this target and timed out
    sm_timedout,    \* that _set_mode left its poll loop through the deadline
    ticks,          \* iterations of the innermost polling loop so far
    rticks,         \* iterations of receive()'s loop so far
    irq2,           \* PayloadReady in receive()'s local irq2; "none" before it is read
    rtimeout,       \* receive()'s timeout argument, in iterations
    rssi_last,      \* iteration of the last RSSI report (last_rssi_time)
    msg,            \* send()'s message after encoding
    msg_in,         \* len() of the message as it was passed to send()
    tx_power,       \* argument of the current/last _set_tx_power
    freq_khz,       \* argument of the current/last _set_frequency, in kHz
    debug,          \* send()'s debug argument
    sent_seen,      \* send()'s poll loop saw PacketSent
    length,         \* receive()'s length byte
    rxbuf,          \* receive()'s payload
    xlog,           \* receive()'s bus reads since its last IRQFLAGS2 poll
    frame_base,     \* Len(wlog) when that poll saw PayloadReady, else -1
    resp,           \* what xfer2 returned to _read_fifo
    rresp,          \* what xfer2 returned to receive's last _read_reg of a value
    rssi_now,       \* what read_rssi() returned for the periodic report
    chip_version,   \* the byte the chip answers for REG_VERSION
    rst_log,        \* levels driven on the reset pin, in order
    err_byte,       \* the version byte in the RuntimeError message, else -1
    warned,         \* _init_radio printed a read-back mismatch warning
    fault,          \* spi.xfer2 raised in the current operation
    gps_pc,         \* position of the GPS thread (integrated script), else "none"
    lock,           \* holder of sensors.lock
    sats,           \* sensors.data['sats']
    main_pc,        \* position of main()'s loop (integrated script), else "none"
    pkt_sats,       \* the S: field of the packet being sent, -1 outside a pass
    sats_ok,        \* what the test d['sats'] > 3 found, "none" until it ran
    ax,             \* sensors.data['ax']
    mx,             \* sensors.data['mx']
    wlog,           \* bus write transactions of the current operation, in order
    xfers           \* bus exchanges of the current operation, modulo MaxXfers + 1

vars == <<build, is_high_power, mode, last_rssi, rssi_at_call, chip,
          bus_open, pc, ret, op, result, ip, sm_target, sm_from, sm_base,
          sm_retry, sm_timedout, ticks, rticks, irq2,
          rtimeout, rssi_last, msg, msg_in, tx_power, freq_khz, debug,
          sent_seen, length, rxbuf, xlog, frame_base, resp, rresp, rssi_now,
          chip_version, rst_log, err_byte, wlog, xfers, warned, fault, gps_pc,
          lock, sats, main_pc, pkt_sats, sats_ok, ax, mx>>

\* ----------------------------------------------------------- register access
\* addr | 0x80
BitOr80(a) == IF (a \div 128) % 2 = 1 THEN a ELSE a + 128

\* addr & 0x7F
BitAnd7F(a) == a % 128

Bump(n) == (n + 1) % (MaxXfers + 1)

\* the chip after a register write
ChipWrite(c, addr, value) ==
    IF addr \in DOMAIN c THEN [c EXCEPT ![addr] = value] ELSE c

\* power-on / reset values of the registers the model tracks
ChipReset ==
    (REG_OPMODE :> MODE_STANDBY) @@ (REG_TESTPA1 :> BOOST_OFF_PA1)
        @@ (REG_TESTPA2 :> BOOST_OFF_PA2) @@ (REG_OCP :> 26)

\* self.spi.xfer2([addr | 0x80, value])
write_reg(addr, value) ==
    /\ chip' = ChipWrite(chip, addr, value)
    /\ wlog' = Append(wlog, <<BitOr80(addr), value>>)
    /\ xfers' = Bump(xfers)

\* self.spi.xfer2([addr & 0x7F, 0x00])[1]: the value is chosen by the caller
read_reg ==
    /\ xfers' = Bump(xfers)
    /\ UNCHANGED <<chip, wlog>>

\* self.spi.xfer2([REG_FIFO | 0x80] + list(data))
write_fifo(data) ==
    /\ wlog' = Append(wlog, <<BitOr80(REG_FIFO)>> \o data)
    /\ xfers' = Bump(xfers)
    /\ UNCHANGED chip

\* ------------------------------------------------------------ configuration
RECURSIVE BitOr(_, _)
\* a | b on non-negative integers
BitOr(a, b) ==
    IF a = 0 THEN b
    ELSE IF b = 0 THEN a
    ELSE (IF a % 2 = 1 \/ b % 2 = 1 THEN 1 ELSE 0) + 2 * BitOr(a \div 2, b \div 2)

Min(a, b) == IF a < b THEN a ELSE b
Max(a, b) == IF a > b THEN a ELSE b

\* the frequency word rounded to the nearest step
FreqWord_nearest(khz) == (khz * 2048 + 62) \div 125

\* the step taken as 61 Hz
FreqWord_fstep61(khz) == (khz * 1000) \div 61

\* frf = int((freq_mhz * 1000000) / FSTEP), FSTEP = FXOSC / 2^19, for a
\* frequency given in kHz: khz * 1000 * 2^19 / 32000000 = khz * 2048 / 125
FreqWord(khz) == (khz * 2048) \div 125

\* the three register writes of _set_frequency, most significant byte first
set_frequency_writes(khz) ==
    LET frf == FreqWord(khz)
    IN  << <<"w", REG_FRFMSB, (frf \div 65536) % 256>>,
           <<"w", REG_FRFMID, (frf \div 256) % 256>>,
           <<"w", REG_FRFLSB, frf % 256>> >>

\* the read-back of _set_frequency
set_frequency_reads ==
    << <<"r", REG_FRFMSB, 0>>, <<"r", REG_FRFMID, 0>>, <<"r", REG_FRFLSB, 0>> >>

\* the register writes of _set_tx_power with the clamp left out
set_tx_power_noclamp(power_dbm, hp) ==
    LET p == power_dbm
    IN  IF hp
        THEN IF p >= 18
             THEN << <<"w", REG_OCP, 15>>,
                     <<"w", REG_PALEVEL, BitOr(96, p + 11)>>,
                     <<"w", REG_TESTPA1, BOOST_ON_PA1>>,
                     <<"w", REG_TESTPA2, BOOST_ON_PA2>> >>
             ELSE << <<"w", REG_OCP, 26>>,
                     <<"w", REG_PALEVEL, BitOr(96, p + 14)>>,
                     <<"w", REG_TESTPA1, BOOST_OFF_PA1>>,
                     <<"w", REG_TESTPA2, BOOST_OFF_PA2>> >>
        ELSE << <<"w", REG_PALEVEL, BitOr(128, p + 18)>> >>

\* the register writes of _set_tx_power(power_dbm)
set_tx_power(power_dbm, hp) ==
    LET p == Max(-2, Min(20, power_dbm))
    IN  IF hp
        THEN IF p >= 18
             THEN << <<"w", REG_OCP, 15>>,
                     <<"w", REG_PALEVEL, BitOr(96, p + 11)>>,
                     <<"w", REG_TESTPA1, BOOST_ON_PA1>>,
                     <<"w", REG_TESTPA2, BOOST_ON_PA2>> >>
             ELSE << <<"w", REG_OCP, 26>>,
                     <<"w", REG_PALEVEL, BitOr(96, p + 14)>>,
                     <<"w", REG_TESTPA1, BOOST_OFF_PA1>>,
                     <<"w", REG_TESTPA2, BOOST_OFF_PA2>> >>
        ELSE << <<"w", REG_PALEVEL, BitOr(128, p + 18)>> >>

\* the config table of avionics_tx._init_radio
ConfigTx ==
    << <<REG_DATAMODUL, 0>>, <<REG_BITRATEMSB, 26>>, <<REG_BITRATELSB, 11>>,
       <<REG_FDEVMSB, 0>>, <<REG_FDEVLSB, 82>>, <<REG_RXBW, 85>>,
       <<REG_AFCBW, 139>>, <<REG_PREAMBLEMSB, 0>>, <<REG_PREAMBLELSB, 4>>,
       <<REG_SYNCCONFIG, 136>>, <<REG_SYNCVALUE1, 45>>, <<REG_SYNCVALUE2, 212>>,
       <<REG_PACKETCONFIG1, 144>>, <<REG_PAYLOADLENGTH, 66>>,
       <<REG_FIFOTHRESH, 143>>, <<REG_PACKETCONFIG2, 2>>,
       <<REG_TESTDAGC, 48>>, <<REG_LNA, 136>> >>

\* the ground station configured with a frequency deviation of its own
ConfigRx_fdev ==
    [ConfigTx EXCEPT ![5] = <<REG_FDEVLSB, 83>>] \o << <<REG_RSSITHRESH, 228>> >>

\* the config table of groundstation_rx._init_radio
ConfigRx == ConfigTx \o << <<REG_RSSITHRESH, 228>> >>

\* the config table of integrated_avionics.init_radio
ConfigIa ==
    << <<REG_DATAMODUL, 0>>, <<REG_BITRATEMSB, 26>>, <<REG_BITRATELSB, 11>>,
       <<REG_FDEVMSB, 0>>, <<REG_FDEVLSB, 82>>, <<REG_RXBW, 85>>,
       <<REG_SYNCCONFIG, 136>>, <<REG_SYNCVALUE1, 45>>, <<REG_SYNCVALUE2, 212>>,
       <<REG_PACKETCONFIG1, 144>>, <<REG_PAYLOADLENGTH, 66>>,
       <<REG_FIFOTHRESH, 143>>, <<REG_PACKETCONFIG2, 2>>,
       <<REG_TESTDAGC, 48>> >>

RECURSIVE WriteVerify(_)
\* for reg, val in config: _write_reg(reg, val); readback = _read_reg(reg)
WriteVerify(cfg) ==
    IF cfg = <<>> THEN <<>>
    ELSE << <<"w", Head(cfg)[1], Head(cfg)[2]>>,
            <<"v", Head(cfg)[1], Head(cfg)[2]>> >>
             \o WriteVerify(Tail(cfg))

\* for reg, val in config: write_reg(reg, val)
WriteOnly(cfg) == [i \in 1..Len(cfg) |-> <<"w", cfg[i][1], cfg[i][2]>>]

\* the bus exchanges of _init_radio / init_radio, in program order
InitProgram(b, hp) ==
    IF b = "tx" THEN
        << <<"w", REG_OPMODE, MODE_STANDBY>> >> \o WriteVerify(ConfigTx)
        \o set_frequency_writes(RADIO_FREQ_MHZ * 1000) \o set_frequency_reads
        \o set_tx_power(TX_POWER, hp)
        \o << <<"w", REG_NODEADRS, NODE_ADDRESS_TX>>,
              <<"w", REG_BROADCASTADRS, BROADCAST_ADDR>> >>
    ELSE IF b = "rx" THEN
        << <<"w", REG_OPMODE, MODE_STANDBY>> >> \o WriteVerify(ConfigRx)
        \o set_frequency_writes(RADIO_FREQ_MHZ * 1000) \o set_frequency_reads
        \o << <<"w", REG_NODEADRS, NODE_ADDRESS_RX>>,
              <<"w", REG_BROADCASTADRS, BROADCAST_ADDR>>,
              <<"w", REG_TESTPA1, BOOST_OFF_PA1>>,
              <<"w", REG_TESTPA2, BOOST_OFF_PA2>> >>
    ELSE
        << <<"w", REG_OPMODE, MODE_STANDBY>> >> \o WriteOnly(ConfigIa)
        \o set_frequency_writes(RADIO_FREQ_MHZ * 1000)
        \o << <<"w", REG_OCP, 15>>, <<"w", REG_PALEVEL, BitOr(96, 31)>>,
              <<"w", REG_TESTPA1, BOOST_ON_PA1>>,
              <<"w", REG_TESTPA2, BOOST_ON_PA2>> >>

\* self.mode as __init__ sets it before touching the chip
InitialMode(b) == IF b = "ia" THEN MODE_SLEEP ELSE MODE_STANDBY

\* bytes the version register may answer: the chip, a dead bus, another chip
Versions == {VERSION_OK, 0, 255, 34}

\* ------------------------------------------------------------- construction
cfgv == <<build, is_high_power, chip_version, rst_log, err_byte>>
gpsv == <<gps_pc, lock, sats>>
mainv == <<main_pc, pkt_sats, sats_ok, ax, mx>>
txv == <<msg, msg_in, tx_power, freq_khz, debug, sent_seen>>
frv == <<xlog, frame_base, resp, rresp, rssi_now>>
rxv == <<last_rssi, rssi_at_call, rticks, rtimeout, irq2, rssi_last, length, rxbuf,
         frv>>

Init ==
    /\ build \in Builds
    /\ is_high_power \in BOOLEAN
    /\ (build # "tx") => is_high_power
    /\ mode = InitialMode(build)
    /\ last_rssi = 0
    /\ rssi_at_call = 0
    /\ chip = ChipReset
    /\ bus_open = TRUE
    /\ pc = "new"
    /\ ret = "idle"
    /\ op = "init"
    /\ result = "none"
    /\ ip = 1
    /\ sm_target = mode
    /\ sm_from = mode
    /\ sm_base = 0
    /\ sm_retry = FALSE
    /\ sm_timedout = FALSE
    /\ ticks = 0
    /\ rticks = 0
    /\ irq2 = "none"
    /\ rtimeout = 0
    /\ rssi_last = 0
    /\ msg = <<>>
    /\ msg_in = 0
    /\ tx_power = TX_POWER
    /\ freq_khz = RADIO_FREQ_MHZ * 1000
    /\ debug = FALSE
    /\ sent_seen = FALSE
    /\ length = 0
    /\ rxbuf = <<>>
    /\ xlog = <<>>
    /\ frame_base = -1
    /\ resp = <<>>
    /\ rresp = <<>>
    /\ rssi_now = 0
    /\ chip_version \in Versions
    /\ rst_log = <<>>
    /\ err_byte = -1
    /\ warned = FALSE
    /\ fault = FALSE
    /\ gps_pc = IF build = "ia" THEN "readline" ELSE "none"
    /\ lock = "free"
    /\ sats = 0
    /\ main_pc = IF build = "ia" THEN "imu" ELSE "none"
    /\ pkt_sats = -1
    /\ sats_ok = "none"
    /\ ax = 0
    /\ mx = 0
    /\ wlog = <<>>
    /\ xfers = 0

\* the pulse inverted: low, then high
ResetPulse_lowhigh == <<"LOW", "HIGH">>

\* GPIO.output(RST_PIN, GPIO.HIGH); sleep; GPIO.output(RST_PIN, GPIO.LOW); sleep
ResetPulse == <<"HIGH", "LOW">>

\* _reset(): pulse the reset line; the chip returns to its reset values
Reset ==
    /\ pc = "new"
    /\ rst_log' = rst_log \o ResetPulse
    /\ chip' = ChipReset
    /\ pc' = IF build = "ia" THEN "init_radio" ELSE "version"
    /\ UNCHANGED <<build, is_high_power, mode, last_rssi, rssi_at_call, bus_open, ret, op,
                   result, ip, sm_target, sm_from, sm_base, sm_retry, sm_timedout,
                   ticks,
                   rticks, rtimeout, irq2, rssi_last, txv, length, rxbuf, frv,
                   chip_version, err_byte, wlog, xfers, warned, fault, gpsv, mainv>>

\* version = _read_reg(REG_VERSION); if version != 0x24: raise RuntimeError
VerifyChip ==
    /\ pc = "version"
    /\ LET version == chip_version
       IN  IF version # VERSION_OK
           THEN pc' = "dead" /\ result' = "IdentityError" /\ err_byte' = version
           ELSE pc' = "init_radio" /\ result' = result /\ err_byte' = err_byte
    /\ read_reg
    /\ UNCHANGED <<build, is_high_power, mode, last_rssi, rssi_at_call, bus_open, ret, op,
                   ip, sm_target, sm_from, sm_base, sm_retry, sm_timedout,
                   ticks,
                   rticks, rtimeout, irq2, rssi_last, txv, length, rxbuf, frv,
                   chip_version, rst_log, warned, fault, gpsv, mainv>>

\* the byte a verifying read may answer: the value written, or another
Readbacks(val) == {val, (val + 1) % 256}

\* a read-back mismatch raised as an error
InitRadioStep_strict ==
    /\ pc = "init_radio"
    /\ LET prog == InitProgram(build, is_high_power)
           e == prog[ip]
       IN  /\ IF e[1] = "w" THEN write_reg(e[2], e[3]) ELSE read_reg
           /\ \E readback \in (IF e[1] = "v" THEN Readbacks(e[3]) ELSE {e[3]}) :
                 IF readback # e[3]
                 THEN warned' = TRUE /\ pc' = "dead" /\ result' = "ConfigError"
                      /\ ip' = ip
                 ELSE /\ warned' = warned
                      /\ ip' = ip + 1
                      /\ IF ip = Len(prog)
                         THEN pc' = "idle" /\ result' = "ok"
                         ELSE pc' = pc /\ result' = result
    /\ UNCHANGED <<build, is_high_power, mode, last_rssi, rssi_at_call, bus_open, ret, op,
                   sm_target, sm_from, sm_base, sm_retry, sm_timedout,
                   ticks,
                   rticks, rtimeout, irq2, rssi_last, txv, length, rxbuf, frv,
                   chip_version, rst_log, err_byte, fault, gpsv, mainv>>

\* one bus exchange of _init_radio; a read-back mismatch only prints a warning
InitRadioStep ==
    /\ pc = "init_radio"
    /\ LET prog == InitProgram(build, is_high_power)
           e == prog[ip]
       IN  /\ IF e[1] = "w" THEN write_reg(e[2], e[3]) ELSE read_reg
           /\ \E readback \in (IF e[1] = "v" THEN Readbacks(e[3]) ELSE {e[3]}) :
                 warned' = (warned \/ readback # e[3])
           /\ ip' = ip + 1
           /\ IF ip = Len(prog)
              THEN pc' = "idle" /\ result' = "ok"
              ELSE pc' = pc /\ result' = result
    /\ UNCHANGED <<build, is_high_power, mode, last_rssi, rssi_at_call, bus_open, ret, op,
                   sm_target, sm_from, sm_base, sm_retry, sm_timedout,
                   ticks,
                   rticks, rtimeout, irq2, rssi_last, txv, length, rxbuf, frv,
                   chip_version, rst_log, err_byte, fault, gpsv, mainv>>

\* ---------------------------------------------------------------- _set_mode
smv == <<sm_target, sm_from, sm_base, sm_retry, sm_timedout>>
busv == <<chip, wlog, xfers>>

\* control returns to label r; the ret_* labels are the operation's return
ReturnTo(r) ==
    IF r = "ret_ok" THEN pc' = "idle" /\ result' = "ok"
    ELSE IF r = "ret_true" THEN pc' = "idle" /\ result' = "True"
    ELSE IF r = "ret_false" THEN pc' = "idle" /\ result' = "False"
    ELSE IF r = "ret_none" THEN pc' = "idle" /\ result' = "None"
    ELSE IF r = "ret_payload" THEN pc' = "idle" /\ result' = "payload"
    ELSE pc' = r /\ result' = result

\* the early return left out
IsCurrentMode_never(target, cur) == FALSE

\* if mode == self.mode: return
IsCurrentMode(target, cur) == target = cur

\* the boost-disable branch never taken
LeavingTxBoost_never(b, cur, hp) == FALSE

\* if self.mode == MODE_TX and self.is_high_power  (avionics_tx only)
LeavingTxBoost(b, cur, hp) == b = "tx" /\ cur = MODE_TX /\ hp

\* the boost-enable branch taken whatever the target mode
EnteringTxBoost_anymode(b, target, hp) == b = "tx" /\ hp /\ TX_POWER >= 18

\* if mode == MODE_TX and self.is_high_power and TX_POWER >= 18  (avionics_tx only)
EnteringTxBoost(b, target, hp) ==
    b = "tx" /\ target = MODE_TX /\ hp /\ TX_POWER >= 18

\* if time.time() > timeout, after t sleeps of the mode-ready loop
ModeDeadline(t) == t >= ModeReadyTicks

\* the call self._set_mode(target), returning to label r
Enter(target, r, base) ==
    /\ sm_target' = target
    /\ sm_from' = mode
    /\ sm_base' = base
    /\ sm_retry' = (sm_timedout /\ ~fault /\ sm_target = target)
    /\ sm_timedout' = FALSE
    /\ ret' = r
    /\ pc' = "sm_check"

\* a new driver operation starts: its exchange log is empty
Begin(o) ==
    /\ pc = "idle"
    /\ bus_open
    /\ op' = o
    /\ result' = "none"
    /\ wlog' = <<>>
    /\ xfers' = 0
    /\ ticks' = 0
    /\ warned' = FALSE
    /\ fault' = FALSE
    /\ rssi_at_call' = last_rssi
    /\ main_pc' = IF build = "ia" /\ o = "send" THEN "status" ELSE main_pc
    /\ UNCHANGED <<cfgv, gpsv, mode, bus_open, ip, chip, last_rssi>>
    /\ UNCHANGED <<pkt_sats, sats_ok, ax, mx>>

\* the locals of send / of receive do not exist in this call
NoSendLocals ==
    /\ msg' = <<>> /\ msg_in' = 0 /\ debug' = FALSE /\ sent_seen' = FALSE
    /\ tx_power' = TX_POWER
    /\ freq_khz' = RADIO_FREQ_MHZ * 1000
NoFrame ==
    /\ xlog' = <<>> /\ frame_base' = -1 /\ resp' = <<>>
    /\ rresp' = <<>> /\ rssi_now' = 0
NoReceiveLocals ==
    /\ rticks' = 0 /\ rtimeout' = 0 /\ rssi_last' = 0 /\ length' = 0
    /\ irq2' = "none"
    /\ rxbuf' = <<>>
    /\ NoFrame

\* no _set_mode runs in this call
NoSetMode ==
    /\ sm_target' = mode /\ sm_from' = mode /\ sm_base' = 0
    /\ sm_retry' = FALSE
    /\ sm_timedout' = FALSE /\ ret' = "idle"

\* radio._set_mode(target) called on an idle handle
CallSetMode ==
    /\ build \in {"tx", "rx"}
    /\ Begin("set_mode")
    /\ \E target \in Modes : Enter(target, "ret_ok", 0)
    /\ NoSendLocals
    /\ NoReceiveLocals

\* lines 249-257: the early return and the choice of the first write
SetModeCheck ==
    /\ pc = "sm_check"
    /\ IF IsCurrentMode(sm_target, mode) THEN ReturnTo(ret)
       ELSE /\ pc' = IF LeavingTxBoost(build, mode, is_high_power)
                     THEN "sm_pa1_off" ELSE "sm_opmode"
            /\ result' = result
    /\ UNCHANGED <<cfgv, gpsv, mainv, warned, fault, mode, bus_open, ret, op, ip, smv, ticks, txv, rxv, busv>>

\* self._write_reg(REG_TESTPA1, 0x55)
SetModeBoostOff1 ==
    /\ pc = "sm_pa1_off"
    /\ write_reg(REG_TESTPA1, BOOST_OFF_PA1)
    /\ pc' = "sm_pa2_off"
    /\ UNCHANGED <<cfgv, gpsv, mainv, warned, fault, mode, bus_open, ret, op, result, ip, smv, ticks, txv, rxv>>

\* self._write_reg(REG_TESTPA2, 0x70)
SetModeBoostOff2 ==
    /\ pc = "sm_pa2_off"
    /\ write_reg(REG_TESTPA2, BOOST_OFF_PA2)
    /\ pc' = "sm_opmode"
    /\ UNCHANGED <<cfgv, gpsv, mainv, warned, fault, mode, bus_open, ret, op, result, ip, smv, ticks, txv, rxv>>

\* self._write_reg(REG_OPMODE, mode)
SetModeWrite ==
    /\ pc = "sm_opmode"
    /\ write_reg(REG_OPMODE, sm_target)
    /\ pc' = IF EnteringTxBoost(build, sm_target, is_high_power)
             THEN "sm_pa1_on" ELSE "sm_poll"
    /\ ticks' = 0
    /\ UNCHANGED <<cfgv, gpsv, mainv, warned, fault, mode, bus_open, ret, op, result, ip, smv, txv, rxv>>

\* entering Transmit also switches the over-current protection off
SetModeBoostOn1_ocp ==
    /\ pc = "sm_pa1_on"
    /\ write_reg(REG_OCP, 15)
    /\ pc' = "sm_pa2_on"
    /\ UNCHANGED <<cfgv, gpsv, mainv, warned, fault, mode, bus_open, ret, op, result,
                   ip, smv, ticks, txv, rxv>>

\* self._write_reg(REG_TESTPA1, 0x5D)
SetModeBoostOn1 ==
    /\ pc = "sm_pa1_on"
    /\ write_reg(REG_TESTPA1, BOOST_ON_PA1)
    /\ pc' = "sm_pa2_on"
    /\ UNCHANGED <<cfgv, gpsv, mainv, warned, fault, mode, bus_open, ret, op, result, ip, smv, ticks, txv, rxv>>

\* self._write_reg(REG_TESTPA2, 0x7C)
SetModeBoostOn2 ==
    /\ pc = "sm_pa2_on"
    /\ write_reg(REG_TESTPA2, BOOST_ON_PA2)
    /\ pc' = "sm_poll"
    /\ UNCHANGED <<cfgv, gpsv, mainv, warned, fault, mode, bus_open, ret, op, result, ip, smv, ticks, txv, rxv>>

\* the deadline raised as an error instead of break
SetModePoll_raise ==
    /\ pc = "sm_poll"
    /\ read_reg
    /\ \E ready \in BOOLEAN :
          IF ready
          THEN /\ mode' = sm_target
               /\ ReturnTo(ret)
               /\ UNCHANGED <<ticks, sm_timedout>>
          ELSE IF ModeDeadline(ticks)
          THEN /\ sm_timedout' = TRUE
               /\ pc' = "idle"
               /\ result' = "ModeTimeoutError"
               /\ UNCHANGED <<ticks, mode>>
          ELSE /\ ticks' = ticks + 1
               /\ UNCHANGED <<pc, mode, result, sm_timedout>>
    /\ UNCHANGED <<cfgv, gpsv, mainv, warned, fault, bus_open, ret, op, ip, sm_target, sm_from, sm_base,
                   sm_retry,                   txv, rxv>>

\* one iteration of the mode-ready loop; on ready or deadline self.mode = mode
SetModePoll ==
    /\ pc = "sm_poll"
    /\ read_reg
    /\ \E ready \in BOOLEAN :
          IF ready
          THEN /\ mode' = sm_target
               /\ ReturnTo(ret)
               /\ UNCHANGED <<ticks, sm_timedout>>
          ELSE IF ModeDeadline(ticks)
          THEN /\ sm_timedout' = TRUE
               /\ ticks' = ticks
               /\ IF build = "tx"
                  THEN pc' = "sm_diag" /\ mode' = mode /\ result' = result
                  ELSE mode' = sm_target /\ ReturnTo(ret)
          ELSE /\ ticks' = ticks + 1
               /\ UNCHANGED <<pc, mode, result, sm_timedout>>
    /\ UNCHANGED <<cfgv, gpsv, mainv, warned, fault, bus_open, ret, op, ip, sm_target, sm_from, sm_base,
                   sm_retry,                   txv, rxv>>

\* after the deadline the target is not recorded as the mode
SetModeDiag_norecord ==
    /\ pc = "sm_diag"
    /\ read_reg
    /\ mode' = mode
    /\ ReturnTo(ret)
    /\ UNCHANGED <<cfgv, gpsv, mainv, warned, fault, bus_open, ret, op, ip, smv, ticks,
                   txv, rxv>>

\* avionics_tx line 268: the error print reads IRQFLAGS1 once more, then break
SetModeDiag ==
    /\ pc = "sm_diag"
    /\ read_reg
    /\ mode' = sm_target
    /\ ReturnTo(ret)
    /\ UNCHANGED <<cfgv, gpsv, mainv, warned, fault, bus_open, ret, op, ip, smv, ticks, txv, rxv>>

\* ------------------------------------------------------------ _set_tx_power
\* the power levels asked for: the range of the chip and a margin on each side
PowerRequests == (-2 - PowerMargin)..(20 + PowerMargin)

\* radio._set_tx_power(power_dbm) called on an idle handle
CallSetTxPower ==
    /\ build = "tx"
    /\ Begin("set_tx_power")
    /\ \E p \in PowerRequests : tx_power' = p
    /\ freq_khz' = RADIO_FREQ_MHZ * 1000
    /\ msg' = <<>> /\ msg_in' = 0 /\ debug' = FALSE /\ sent_seen' = FALSE
    /\ pc' = "p_write"
    /\ NoReceiveLocals
    /\ NoSetMode

\* lines 223-243: the next register write of _set_tx_power
SetTxPowerWrite ==
    /\ pc = "p_write"
    /\ LET prog == set_tx_power(tx_power, is_high_power)
           e == prog[Len(wlog) + 1]
       IN  /\ write_reg(e[2], e[3])
           /\ IF Len(wlog) + 1 = Len(prog)
              THEN ReturnTo("ret_ok")
              ELSE pc' = pc /\ result' = result
    /\ UNCHANGED <<cfgv, gpsv, mainv, warned, fault, mode, bus_open, ret, op, ip, smv, ticks, txv, rxv>>

\* ----------------------------------------------------------- _set_frequency
\* the carrier frequencies asked for, in kHz: the two ends of the chip's
\* range (290..1020 MHz), the two usual carriers, and 2 kHz steps above each
\* (of the steps, 2 kHz is 32.77 words and 4 kHz is 65.54 words)
Frequencies ==
    {mhz * 1000 + 2 * d : mhz \in {290, 433, 915, 1020}, d \in 0..FreqOffsets}

\* radio._set_frequency(freq_mhz) called on an idle handle
CallSetFrequency ==
    /\ build \in {"tx", "rx"}
    /\ Begin("set_frequency")
    /\ \E f \in Frequencies : freq_khz' = f
    /\ tx_power' = TX_POWER
    /\ msg' = <<>> /\ msg_in' = 0 /\ debug' = FALSE /\ sent_seen' = FALSE
    /\ pc' = "f_step"
    /\ NoReceiveLocals
    /\ NoSetMode

\* lines 199-207: the next bus exchange of _set_frequency
SetFrequencyStep ==
    /\ pc = "f_step"
    /\ LET prog == set_frequency_writes(freq_khz) \o set_frequency_reads
           e == prog[xfers + 1]
       IN  /\ IF e[1] = "w" THEN write_reg(e[2], e[3]) ELSE read_reg
           /\ IF xfers + 1 = Len(prog)
              THEN ReturnTo("ret_ok")
              ELSE pc' = pc /\ result' = result
    /\ UNCHANGED <<cfgv, gpsv, mainv, warned, fault, mode, bus_open, ret, op, ip, smv,
                   ticks, txv, rxv>>

\* --------------------------------------------------------------------- send
\* an n-byte message; byte i is i
Message(n) == [i \in 1..n |-> i % 256]

\* message[:60]
Truncate(m) == SubSeq(m, 1, Min(Len(m), MAX_SEND_LEN))

\* payload = [len(message)] + list(message)
Frame(m) == <<Len(m)>> \o m

MsgLens == {0, 1, MAX_SEND_LEN, MAX_SEND_LEN + MsgOver}

\* if time.time() > timeout, after t sleeps of the packet-sent loop
SentDeadline(t) == t >= PacketSentTicks

\* avionics_tx.send(message, debug): truncate, then _set_mode(MODE_STANDBY)
CallSend ==
    /\ build = "tx"
    /\ Begin("send")
    /\ \E n \in MsgLens : msg_in' = n /\ msg' = Truncate(Message(n))
    /\ tx_power' = TX_POWER
    /\ freq_khz' = RADIO_FREQ_MHZ * 1000
    /\ \E d \in BOOLEAN : debug' = d
    /\ sent_seen' = FALSE
    /\ Enter(MODE_STANDBY, "s_dbg1", 0)
    /\ NoReceiveLocals

\* lines 289-292: if debug, read IRQFLAGS1 and IRQFLAGS2
SendDebug1 ==
    /\ pc = "s_dbg1"
    /\ IF debug THEN read_reg ELSE UNCHANGED busv
    /\ pc' = "s_fifo"
    /\ UNCHANGED <<cfgv, gpsv, mainv, warned, fault, mode, bus_open, ret, op, result, ip, smv, ticks, txv, rxv>>

\* lines 300-302: self._write_fifo([len(message)] + list(message))
SendWriteFifo ==
    /\ pc = "s_fifo"
    /\ write_fifo(Frame(msg))
    /\ pc' = "s_dbg2"
    /\ UNCHANGED <<cfgv, gpsv, mainv, warned, fault, mode, bus_open, ret, op, result, ip, smv, ticks, txv, rxv>>

\* lines 304-312: if debug, read IRQFLAGS2; then _set_mode(MODE_TX)
SendDebug2 ==
    /\ pc = "s_dbg2"
    /\ IF debug THEN read_reg ELSE UNCHANGED busv
    /\ Enter(MODE_TX, "s_dbg3", Len(wlog))
    /\ UNCHANGED <<cfgv, gpsv, mainv, warned, fault, mode, bus_open, op, result, ip, ticks, txv, rxv>>

\* lines 314-320: if debug, read IRQFLAGS1 and IRQFLAGS2; start the deadline
SendDebug3 ==
    /\ pc = "s_dbg3"
    /\ IF debug THEN read_reg ELSE UNCHANGED busv
    /\ pc' = "s_poll"
    /\ ticks' = 0
    /\ UNCHANGED <<cfgv, gpsv, mainv, warned, fault, mode, bus_open, ret, op, result, ip, smv, txv, rxv>>

\* the success path returning True without _set_mode(MODE_STANDBY)
SendPoll_nostandby ==
    /\ pc = "s_poll"
    /\ read_reg
    /\ \E sent \in BOOLEAN :
          IF sent
          THEN /\ sent_seen' = TRUE
               /\ ReturnTo("ret_true")
               /\ UNCHANGED <<ticks, ret, smv>>
          ELSE IF SentDeadline(ticks)
          THEN /\ pc' = "s_tmo"
               /\ UNCHANGED <<sent_seen, ticks, ret, smv, result>>
          ELSE /\ ticks' = ticks + 1
               /\ UNCHANGED <<sent_seen, pc, ret, smv, result>>
    /\ UNCHANGED <<cfgv, gpsv, mainv, warned, fault, mode, bus_open, op, ip, msg, msg_in, tx_power, freq_khz, debug, rxv>>

\* lines 321-336: one iteration of the packet-sent loop
SendPoll ==
    /\ pc = "s_poll"
    /\ read_reg
    /\ \E sent \in BOOLEAN :
          IF sent
          THEN /\ sent_seen' = TRUE
               /\ Enter(MODE_STANDBY, "ret_true", Len(wlog))
               /\ ticks' = ticks
          ELSE IF SentDeadline(ticks)
          THEN /\ pc' = "s_tmo"
               /\ UNCHANGED <<sent_seen, ticks, ret, smv>>
          ELSE /\ ticks' = ticks + 1
               /\ UNCHANGED <<sent_seen, pc, ret, smv>>
    /\ UNCHANGED <<cfgv, gpsv, mainv, warned, fault, mode, bus_open, op, result, ip, msg, msg_in, tx_power,
                   freq_khz, debug, rxv>>

\* lines 326-329: read IRQFLAGS1 for the message, _set_mode(MODE_STANDBY), return False
SendTimeout ==
    /\ pc = "s_tmo"
    /\ read_reg
    /\ Enter(MODE_STANDBY, "ret_false", Len(wlog))
    /\ UNCHANGED <<cfgv, gpsv, mainv, warned, fault, mode, bus_open, op, result, ip, ticks, txv, rxv>>

\* integrated_avionics.send(data): no truncation; write_reg(REG_OPMODE, MODE_STANDBY)
IaSend ==
    /\ build = "ia"
    /\ main_pc = "send"
    /\ Begin("send")
    /\ \E n \in MsgLens : msg_in' = n /\ msg' = Message(n)
    /\ tx_power' = TX_POWER
    /\ freq_khz' = RADIO_FREQ_MHZ * 1000
    /\ debug' = FALSE
    /\ sent_seen' = FALSE
    /\ pc' = "i_standby"
    /\ NoReceiveLocals
    /\ UNCHANGED <<ret, smv>>

\* line 149: self.write_reg(REG_OPMODE, MODE_STANDBY)
IaSendStandby ==
    /\ pc = "i_standby"
    /\ write_reg(REG_OPMODE, MODE_STANDBY)
    /\ pc' = "i_ready"
    /\ UNCHANGED <<cfgv, gpsv, mainv, warned, fault, mode, bus_open, ret, op, result, ip, smv, ticks, txv, rxv>>

\* line 150: while not (self.read_reg(REG_IRQFLAGS1) & 0x80): pass
IaSendWaitReady ==
    /\ pc = "i_ready"
    /\ read_reg
    /\ \E ready \in BOOLEAN : pc' = IF ready THEN "i_fifo" ELSE "i_ready"
    /\ UNCHANGED <<cfgv, gpsv, mainv, warned, fault, mode, bus_open, ret, op, result, ip, smv, ticks, txv, rxv>>

\* line 153: self.spi.xfer2([REG_FIFO | 0x80, len(data)] + list(data))
IaSendWriteFifo ==
    /\ pc = "i_fifo"
    /\ write_fifo(Frame(msg))
    /\ pc' = "i_tx"
    /\ UNCHANGED <<cfgv, gpsv, mainv, warned, fault, mode, bus_open, ret, op, result, ip, smv, ticks, txv, rxv>>

\* lines 156-159: self.write_reg(REG_OPMODE, MODE_TX); start = time.time()
IaSendTx ==
    /\ pc = "i_tx"
    /\ write_reg(REG_OPMODE, MODE_TX)
    /\ pc' = "i_poll"
    /\ ticks' = 0
    /\ UNCHANGED <<cfgv, gpsv, mainv, warned, fault, mode, bus_open, ret, op, result, ip, smv, txv, rxv>>

\* lines 160-161: the packet-sent loop; past the deadline: return False
IaSendPoll ==
    /\ pc = "i_poll"
    /\ read_reg
    /\ \E sent \in BOOLEAN :
          IF sent
          THEN sent_seen' = TRUE /\ pc' = "i_done" /\ UNCHANGED <<ticks, result>>
          ELSE IF SentDeadline(ticks)
          THEN ReturnTo("ret_false") /\ UNCHANGED <<sent_seen, ticks>>
          ELSE ticks' = ticks + 1 /\ UNCHANGED <<sent_seen, pc, result>>
    /\ UNCHANGED <<cfgv, gpsv, mainv, warned, fault, mode, bus_open, ret, op, ip, smv, msg, msg_in,
                   tx_power, freq_khz, debug, rxv>>

\* lines 163-164: self.write_reg(REG_OPMODE, MODE_STANDBY); return True
IaSendDone ==
    /\ pc = "i_done"
    /\ write_reg(REG_OPMODE, MODE_STANDBY)
    /\ ReturnTo("ret_true")
    /\ UNCHANGED <<cfgv, gpsv, mainv, warned, fault, mode, bus_open, ret, op, ip, smv, ticks, txv, rxv>>

\* -------------------------------------------------------------------- close
\* avionics_tx / groundstation_rx close(): self._set_mode(MODE_SLEEP)
CallClose ==
    /\ build \in {"tx", "rx"}
    /\ Begin("close")
    /\ Enter(MODE_SLEEP, "c_close", 0)
    /\ NoSendLocals
    /\ NoReceiveLocals

\* integrated_avionics close()
IaClose ==
    /\ build = "ia"
    /\ Begin("close")
    /\ pc' = "i_sleep"
    /\ NoSendLocals
    /\ NoReceiveLocals
    /\ UNCHANGED <<ret, smv>>

\* line 167: self.write_reg(REG_OPMODE, MODE_SLEEP)
IaCloseSleep ==
    /\ pc = "i_sleep"
    /\ write_reg(REG_OPMODE, MODE_SLEEP)
    /\ pc' = "c_close"
    /\ UNCHANGED <<cfgv, gpsv, mainv, warned, fault, mode, bus_open, ret, op, result, ip, smv, ticks, txv, rxv>>

\* self.spi.close(): the bus is released and the handle is finished
CloseBus ==
    /\ pc = "c_close"
    /\ bus_open' = FALSE
    /\ pc' = "closed"
    /\ result' = "ok"
    /\ UNCHANGED <<cfgv, gpsv, mainv, warned, fault, mode, ret, op, ip, smv, ticks, txv, rxv, busv>>

\* ------------------------------------------------------------------ receive
\* raw bytes the RSSI register may answer
RssiRaws == {0, 1, 200, 255}

\* length bytes the FIFO may answer
RxLens == {0, 1, MAX_SEND_LEN, MAX_RX_LEN, MAX_RX_LEN + 1, 200}

\* first bytes the FIFO may answer for a payload; byte i is first + i - 1
RxFirst == {0, 1, 65}

\* the bytes sent by _read_reg(addr): [addr & 0x7F, 0x00]
ReadRequest(addr) == <<BitAnd7F(addr), 0>>

\* what xfer2 returns for a register read: one byte clocked in with the
\* address, then the register's value
RegResponse(value) == <<0, value>>

\* the first response byte returned instead
reg_value_first(r) == r[1]

\* return resp[1]
reg_value(r) == r[2]

\* the bytes sent by _read_fifo(length): [REG_FIFO] + [0x00] * length
FifoRequest(n) == <<REG_FIFO>> \o [i \in 1..n |-> 0]

\* what xfer2 returns for that burst: one byte clocked in with the address,
\* then the n bytes at the head of the FIFO
FifoResponse(first, n) == <<0>> \o [i \in 1..n |-> (first + i - 1) % 256]

\* the whole response returned, the address slot included
read_fifo_keepfirst(r) == r

\* return resp[1:]
read_fifo(r) == Tail(r)

\* -raw // 2: the sign applied before the floor division
RssiDbm_floor(raw) == (-raw) \div 2

\* -(raw // 2)
RssiDbm(raw) == -(raw \div 2)

\* the upper limit left out
ValidLength_nolimit(l) == 0 < l

\* if 0 < length <= 66
ValidLength(l) == 0 < l /\ l <= MAX_RX_LEN

\* if current_time - start_time > timeout, in iteration t of the loop
RecvDeadline(t, timeout) == t >= timeout

\* if current_time - last_rssi_time > 2.0, in iteration t of the loop
RssiDue(t, last) == t - last > RssiPeriodTicks

\* if time.time() > timeout, after t sleeps of read_rssi's loop
RssiDeadline(t) == t >= RssiDoneTicks

\* the timeout tested at the top of the loop, before PayloadReady is read
CallReceive_timeoutfirst ==
    /\ build = "rx"
    /\ Begin("receive")
    /\ \E t \in {0, RecvTicks} : rtimeout' = t
    /\ rticks' = 0
    /\ irq2' = "none"
    /\ rssi_last' = -(RssiPeriodTicks + 1)
    /\ length' = 0
    /\ rxbuf' = <<>>
    /\ NoFrame
    /\ Enter(MODE_RX, "r_tmo", 0)
    /\ NoSendLocals

\* groundstation_rx.receive(timeout): _set_mode(MODE_RX), start the clocks
CallReceive ==
    /\ build = "rx"
    /\ Begin("receive")
    /\ \E t \in {0, RecvTicks} : rtimeout' = t
    /\ rticks' = 0
    /\ irq2' = "none"
    /\ rssi_last' = -(RssiPeriodTicks + 1)
    /\ length' = 0
    /\ rxbuf' = <<>>
    /\ NoFrame
    /\ Enter(MODE_RX, "r_loop", 0)
    /\ NoSendLocals

\* the length byte read first, the RSSI read left out
ReceivePoll_lenfirst ==
    /\ pc = "r_loop"
    /\ read_reg
    /\ \E ready \in BOOLEAN :
          /\ pc' = IF ready THEN "r_len" ELSE "r_dbg"
          /\ frame_base' = IF ready THEN Len(wlog) ELSE -1
          /\ irq2' = IF ready THEN "ready" ELSE "clear"
    /\ xlog' = <<>>
    /\ rresp' = <<>>
    /\ rssi_now' = 0
    /\ UNCHANGED <<cfgv, gpsv, mainv, warned, fault, mode, bus_open, ret, op, result,
                   ip, smv, ticks, txv, last_rssi, rssi_at_call, rticks, rtimeout, rssi_last,
                   length, rxbuf, resp>>

\* lines 253-255: irq2 = self._read_reg(REG_IRQFLAGS2); if irq2 & 0x04
ReceivePoll ==
    /\ pc = "r_loop"
    /\ read_reg
    /\ \E ready \in BOOLEAN :
          /\ pc' = IF ready THEN "r_rssi" ELSE "r_dbg"
          /\ frame_base' = IF ready THEN Len(wlog) ELSE -1
          /\ irq2' = IF ready THEN "ready" ELSE "clear"
    /\ xlog' = <<>>
    /\ rresp' = <<>>
    /\ rssi_now' = 0
    /\ UNCHANGED <<cfgv, gpsv, mainv, warned, fault, mode, bus_open, ret, op, result,
                   ip, smv, ticks, txv, last_rssi, rssi_at_call, rticks, rtimeout, rssi_last,
                   length, rxbuf, resp>>

\* line 257: self.last_rssi = -(self._read_reg(REG_RSSIVALUE) // 2)
ReceiveRssi ==
    /\ pc = "r_rssi"
    /\ read_reg
    /\ \E raw \in RssiRaws :
          /\ rresp' = RegResponse(raw)
          /\ last_rssi' = RssiDbm(reg_value(rresp'))
    /\ xlog' = Append(xlog, ReadRequest(REG_RSSIVALUE))
    /\ pc' = "r_len"
    /\ UNCHANGED <<cfgv, gpsv, mainv, warned, fault, mode, bus_open, ret, op, result,
                   ip, smv, ticks, txv, rticks, rtimeout, irq2, rssi_last, length,
                   rxbuf, frame_base, resp, rssi_now, rssi_at_call>>

\* lines 260-273: length = self._read_reg(REG_FIFO); invalid: _set_mode(MODE_STANDBY)
ReceiveLength ==
    /\ pc = "r_len"
    /\ read_reg
    /\ \E l \in RxLens :
          /\ rresp' = RegResponse(l)
          /\ length' = reg_value(rresp')
          /\ IF ValidLength(length')
             THEN pc' = "r_fifo" /\ UNCHANGED <<ret, smv>>
             ELSE Enter(MODE_STANDBY, "r_flush", Len(wlog))
    /\ xlog' = Append(xlog, ReadRequest(REG_FIFO))
    /\ UNCHANGED <<cfgv, gpsv, mainv, warned, fault, mode, bus_open, op, result, ip,
                   ticks, txv, last_rssi, rssi_at_call, rticks, rtimeout, irq2, rssi_last, rxbuf,
                   frame_base, resp, rssi_now>>

\* lines 264-269: payload = self._read_fifo(length); _set_mode(MODE_STANDBY); return
ReceivePayload ==
    /\ pc = "r_fifo"
    /\ read_reg
    /\ xlog' = Append(xlog, FifoRequest(length))
    /\ \E first \in RxFirst :
          /\ resp' = FifoResponse(first, length)
          /\ rxbuf' = read_fifo(resp')
    /\ Enter(MODE_STANDBY, "ret_payload", Len(wlog))
    /\ UNCHANGED <<cfgv, gpsv, mainv, warned, fault, mode, bus_open, op, result, ip,
                   ticks, txv, last_rssi, rssi_at_call, rticks, rtimeout, irq2, rssi_last, length,
                   frame_base, rresp, rssi_now>>

\* line 274: self._set_mode(MODE_RX) after the flush
ReceiveRelisten ==
    /\ pc = "r_flush"
    /\ Enter(MODE_RX, "r_dbg", Len(wlog))
    /\ UNCHANGED <<cfgv, gpsv, mainv, warned, fault, mode, bus_open, op, result, ip, ticks, txv, rxv, busv>>

\* line 277: is the periodic RSSI report due?
ReceiveDebug ==
    /\ pc = "r_dbg"
    /\ pc' = IF RssiDue(rticks, rssi_last) THEN "q_trig" ELSE "r_tmo"
    /\ UNCHANGED <<cfgv, gpsv, mainv, warned, fault, mode, bus_open, ret, op, result, ip, smv, ticks, txv,
                   rxv, busv>>

\* read_rssi line 229: self._write_reg(REG_RSSICONFIG, 0x01)
ReadRssiTrigger ==
    /\ pc = "q_trig"
    /\ write_reg(REG_RSSICONFIG, 1)
    /\ ticks' = 0
    /\ pc' = "q_poll"
    /\ UNCHANGED <<cfgv, gpsv, mainv, warned, fault, mode, bus_open, ret, op, result, ip, smv, txv, rxv>>

\* read_rssi lines 231-235: one iteration of the RSSI-done loop
ReadRssiPoll ==
    /\ pc = "q_poll"
    /\ read_reg
    /\ \E done \in BOOLEAN :
          IF done \/ RssiDeadline(ticks)
          THEN pc' = "q_val" /\ ticks' = ticks
          ELSE pc' = pc /\ ticks' = ticks + 1
    /\ UNCHANGED <<cfgv, gpsv, mainv, warned, fault, mode, bus_open, ret, op, result, ip, smv, txv, rxv>>

\* line 236 and lines 279-281: read RSSIVALUE, read IRQFLAGS1, print
ReadRssiValue ==
    /\ pc = "q_val"
    /\ read_reg
    /\ \E raw \in RssiRaws :
          /\ rresp' = RegResponse(raw)
          /\ rssi_now' = RssiDbm(reg_value(rresp'))
    /\ rssi_last' = rticks
    /\ pc' = "r_tmo"
    /\ UNCHANGED <<cfgv, gpsv, mainv, warned, fault, mode, bus_open, ret, op, result,
                   ip, smv, ticks, txv, last_rssi, rssi_at_call, rticks, rtimeout, irq2, length,
                   rxbuf, xlog, frame_base, resp>>

\* past the timeout: return None without _set_mode(MODE_STANDBY)
ReceiveTimeout_nostandby ==
    /\ pc = "r_tmo"
    /\ IF RecvDeadline(rticks, rtimeout)
       THEN ReturnTo("ret_none") /\ rticks' = rticks
       ELSE pc' = "r_loop" /\ rticks' = rticks + 1 /\ result' = result
    /\ UNCHANGED <<cfgv, gpsv, mainv, warned, fault, mode, bus_open, ret, op, ip, smv, ticks, txv,
                   last_rssi, rssi_at_call, rtimeout, irq2, rssi_last, length, rxbuf, frv, busv>>

\* lines 284-288: past the timeout _set_mode(MODE_STANDBY), return None; else sleep
ReceiveTimeout ==
    /\ pc = "r_tmo"
    /\ IF RecvDeadline(rticks, rtimeout)
       THEN Enter(MODE_STANDBY, "ret_none", Len(wlog)) /\ rticks' = rticks
       ELSE pc' = "r_loop" /\ rticks' = rticks + 1 /\ UNCHANGED <<ret, smv>>
    /\ UNCHANGED <<cfgv, gpsv, mainv, warned, fault, mode, bus_open, op, result, ip, ticks, txv,
                   last_rssi, rssi_at_call, rtimeout, irq2, rssi_last, length, rxbuf, frv, busv>>

\* ---------------------------------------------------------- transport errors
\* the positions whose next step is a bus exchange
XferPc ==
    \/ pc \in {"version", "init_radio", "sm_pa1_off", "sm_pa2_off", "sm_opmode",
               "sm_pa1_on", "sm_pa2_on", "sm_poll", "sm_diag", "p_write", "f_step", "s_fifo",
               "s_poll", "s_tmo", "i_standby", "i_ready", "i_fifo", "i_tx",
               "i_poll", "i_done", "i_sleep", "r_loop", "r_rssi", "r_len",
               "r_fifo", "q_trig", "q_poll", "q_val"}
    \/ pc \in {"s_dbg1", "s_dbg2", "s_dbg3"} /\ debug

\* spi.xfer2 raises and the driver turns the exception into a False result
TransportError_swallowed ==
    /\ XferPc
    /\ pc' = IF op = "init" THEN "dead" ELSE "idle"
    /\ result' = "False"
    /\ fault' = TRUE
    /\ xfers' = Bump(xfers)
    /\ UNCHANGED <<cfgv, gpsv, mainv, warned, mode, bus_open, ret, op, ip, smv, ticks,
                   txv, rxv, chip, wlog>>

\* spi.xfer2 raises: nothing in the driver catches it, the operation is
\* abandoned where it stands; raised in __init__, no handle comes to exist
TransportError ==
    /\ XferPc
    /\ pc' = IF op = "init" THEN "dead" ELSE "idle"
    /\ result' = "TransportError"
    /\ fault' = TRUE
    /\ xfers' = Bump(xfers)
    /\ UNCHANGED <<cfgv, gpsv, mainv, warned, mode, bus_open, ret, op, ip, smv, ticks, txv, rxv,
                   chip, wlog>>

\* --------------------------------------------------------------- GPS thread
\* satellite counts a GGA sentence may carry
SatCounts == {0, 4}

\* signed 16-bit readings a motion sensor axis may give
Samples == {0, -1}

\* everything but the GPS thread's own state
radiov == <<cfgv, mode, chip, bus_open, pc, ret, op, result, ip, smv, ticks,
            txv, rxv, wlog, xfers, warned, fault, mainv>>

\* the daemon thread runs as long as main() does
GpsAlive == build = "ia" /\ pc \notin {"dead", "closed"}

\* lines 286-290: ser.readline(); is the line a GGA sentence that parses?
GpsReadLine ==
    /\ GpsAlive
    /\ gps_pc = "readline"
    /\ \E gga \in BOOLEAN : gps_pc' = IF gga THEN "acquire" ELSE "readline"
    /\ UNCHANGED <<lock, sats, radiov>>

\* line 291: with self.lock
GpsAcquire ==
    /\ GpsAlive
    /\ gps_pc = "acquire"
    /\ lock = "free"
    /\ lock' = "gps"
    /\ gps_pc' = "update"
    /\ UNCHANGED <<sats, radiov>>

\* the GPS thread also reads a radio register while it holds the lock
GpsUpdate_readsradio ==
    /\ GpsAlive
    /\ gps_pc = "update"
    /\ \E n \in SatCounts : sats' = n
    /\ lock' = "free"
    /\ gps_pc' = "readline"
    /\ read_reg
    /\ UNCHANGED <<cfgv, mode, bus_open, pc, ret, op, result, ip, smv, ticks,
                   txv, rxv, warned, fault, mainv>>

\* lines 292-297: the fields of self.data are assigned, the lock is released
GpsUpdate ==
    /\ GpsAlive
    /\ gps_pc = "update"
    /\ \E n \in SatCounts : sats' = n
    /\ lock' = "free"
    /\ gps_pc' = "readline"
    /\ UNCHANGED radiov

\* -------------------------------------------------------------- main thread
\* the loop of main() runs between two calls on the radio handle, until an
\* exception other than KeyboardInterrupt leaves main()
MainRuns == build = "ia" /\ pc = "idle" /\ bus_open /\ ~fault

\* everything but the state the loop of main() shares with the GPS thread
loopv == <<cfgv, mode, chip, bus_open, pc, ret, op, result, ip, smv, ticks,
           txv, rxv, wlog, xfers, warned, fault, gps_pc>>

\* lines 250-258 and 270-275: the I2C block read either raises, and the
\* except clause swallows it, or returns, and `with self.lock` is entered
SensorRead(at, store, after) ==
    /\ MainRuns
    /\ main_pc = at
    /\ \E ok \in BOOLEAN :
          IF ok
          THEN lock = "free" /\ lock' = "main" /\ main_pc' = store
          ELSE lock' = lock /\ main_pc' = after
    /\ UNCHANGED <<sats, pkt_sats, sats_ok, ax, mx, loopv>>

\* lines 264-265 and 278-279: the with block of a sensor read ends
SensorStore(at, after) ==
    /\ MainRuns
    /\ main_pc = at
    /\ lock' = "free"
    /\ main_pc' = after
    /\ UNCHANGED <<sats, pkt_sats, sats_ok, loopv>>

\* the parse helper of read_imu and read_mag: two bytes, low first, as a
\* signed 16-bit number
parse(lo, hi) ==
    LET val == lo + hi * 256 IN IF val > 32767 THEN val - 65536 ELSE val

\* line 336: sensors.read_imu(), first statement of a pass of the loop
MainReadImu ==
    /\ main_pc = "imu"
    /\ SensorRead("imu", "imu_store", "mag")

\* lines 259-264: self.data['gx'] ... self.data['az'] = parse(...)
MainStoreImu ==
    /\ main_pc = "imu_store"
    /\ SensorStore("imu_store", "mag")
    /\ \E b \in {0, 255} : ax' = parse(b, b)
    /\ mx' = mx

\* line 337: sensors.read_mag()
MainReadMag ==
    /\ main_pc = "mag"
    /\ SensorRead("mag", "mag_store", "fmt")

\* lines 276-278: self.data['mx'] ... self.data['mz'] = parse(...)
MainStoreMag ==
    /\ main_pc = "mag_store"
    /\ SensorStore("mag_store", "fmt")
    /\ \E b \in {0, 255} : mx' = parse(b, b)
    /\ ax' = ax

\* lines 340-341: with sensors.lock: d = sensors.data
MainLockPacket ==
    /\ MainRuns
    /\ main_pc = "fmt"
    /\ lock = "free"
    /\ lock' = "main"
    /\ main_pc' = "packet"
    /\ pkt_sats' = -1
    /\ sats_ok' = "none"
    /\ UNCHANGED <<sats, ax, mx, loopv>>

\* lines 343-345: the packet is formatted from d, the with block ends
MainFormatPacket ==
    /\ MainRuns
    /\ main_pc = "packet"
    /\ pkt_sats' = sats
    /\ lock' = "free"
    /\ main_pc' = "send"
    /\ UNCHANGED <<sats, sats_ok, ax, mx, loopv>>

\* line 358: if d['sats'] > 3 and ..., d being sensors.data itself
MainStatus ==
    /\ MainRuns
    /\ main_pc = "status"
    /\ sats_ok' = IF sats > 3 THEN "yes" ELSE "no"
    /\ main_pc' = "imu"
    /\ UNCHANGED <<sats, lock, pkt_sats, ax, mx, loopv>>

\* ------------------------------------------------------------ specification
\* the steps of the thread that owns the radio handle
RadioThread ==
    \/ Reset \/ VerifyChip \/ InitRadioStep
    \/ CallSetMode \/ SetModeCheck \/ SetModeBoostOff1 \/ SetModeBoostOff2
    \/ SetModeWrite \/ SetModeBoostOn1 \/ SetModeBoostOn2 \/ SetModePoll
    \/ SetModeDiag
    \/ CallSetTxPower \/ SetTxPowerWrite
    \/ CallSetFrequency \/ SetFrequencyStep
    \/ CallSend \/ SendDebug1 \/ SendWriteFifo \/ SendDebug2 \/ SendDebug3
    \/ SendPoll \/ SendTimeout
    \/ IaSend \/ IaSendStandby \/ IaSendWaitReady \/ IaSendWriteFifo
    \/ IaSendTx \/ IaSendPoll \/ IaSendDone
    \/ CallReceive \/ ReceivePoll \/ ReceiveRssi \/ ReceiveLength
    \/ ReceivePayload \/ ReceiveRelisten \/ ReceiveDebug \/ ReadRssiTrigger
    \/ ReadRssiPoll \/ ReadRssiValue \/ ReceiveTimeout
    \/ CallClose \/ IaClose \/ IaCloseSleep \/ CloseBus
    \/ TransportError
    \/ MainReadImu \/ MainStoreImu \/ MainReadMag \/ MainStoreMag
    \/ MainLockPacket \/ MainFormatPacket \/ MainStatus

Next ==
    \/ Reset \/ VerifyChip \/ InitRadioStep
    \/ CallSetMode \/ SetModeCheck \/ SetModeBoostOff1 \/ SetModeBoostOff2
    \/ SetModeWrite \/ SetModeBoostOn1 \/ SetModeBoostOn2 \/ SetModePoll
    \/ SetModeDiag
    \/ CallSetTxPower \/ SetTxPowerWrite
    \/ CallSetFrequency \/ SetFrequencyStep
    \/ CallSend \/ SendDebug1 \/ SendWriteFifo \/ SendDebug2 \/ SendDebug3
    \/ SendPoll \/ SendTimeout
    \/ IaSend \/ IaSendStandby \/ IaSendWaitReady \/ IaSendWriteFifo
    \/ IaSendTx \/ IaSendPoll \/ IaSendDone
    \/ CallReceive \/ ReceivePoll \/ ReceiveRssi \/ ReceiveLength
    \/ ReceivePayload \/ ReceiveRelisten \/ ReceiveDebug \/ ReadRssiTrigger
    \/ ReadRssiPoll \/ ReadRssiValue \/ ReceiveTimeout
    \/ CallClose \/ IaClose \/ IaCloseSleep \/ CloseBus
    \/ TransportError
    \/ MainReadImu \/ MainStoreImu \/ MainReadMag \/ MainStoreMag
    \/ MainLockPacket \/ MainFormatPacket \/ MainStatus
    \/ GpsReadLine \/ GpsAcquire \/ GpsUpdate

Spec == Init /\ [][Next]_vars

\* the thread that calls the driver keeps running: a step of it that can be
\* taken is taken, whatever the GPS thread does
FairSpec == Spec /\ WF_vars(RadioThread)

TypeOK ==
    /\ build \in Builds
    /\ is_high_power \in BOOLEAN
    /\ mode \in Modes
    /\ chip[REG_OPMODE] \in Modes
    /\ ticks \in 0..(ModeReadyTicks + PacketSentTicks + RssiDoneTicks)
    /\ rticks \in 0..RecvTicks
    /\ xfers \in 0..MaxXfers
    /\ Len(msg) <= MAX_SEND_LEN + MsgOver
    /\ msg_in \in MsgLens \cup {0}
    /\ tx_power \in PowerRequests
    /\ frame_base \in -1..Len(wlog)
    /\ chip_version \in Versions
    /\ err_byte \in Versions \cup {-1}
    /\ Len(rst_log) \in {0, 2}
    /\ Len(rxbuf) <= MAX_RX_LEN
    /\ warned \in BOOLEAN /\ fault \in BOOLEAN
    /\ gps_pc \in {"none", "readline", "acquire", "update"}
    /\ lock \in {"free", "gps", "main"}
    /\ sats \in SatCounts
    /\ main_pc \in {"none", "imu", "imu_store", "mag", "mag_store", "fmt",
                   "packet", "send", "status"}
    /\ pkt_sats \in SatCounts \cup {-1}
    /\ sats_ok \in {"none", "yes", "no"}
    /\ ax \in Samples /\ mx \in Samples
    /\ freq_khz \in Frequencies
    /\ rresp \in {<<>>} \cup {RegResponse(v) : v \in 0..255}
    /\ rssi_now \in {RssiDbm(raw) : raw \in RssiRaws}
    /\ last_rssi \in {RssiDbm(raw) : raw \in RssiRaws}
    /\ sm_retry \in BOOLEAN /\ sm_timedout \in BOOLEAN
    /\ irq2 \in {"none", "clear", "ready"}
    /\ rssi_at_call \in {RssiDbm(raw) : raw \in RssiRaws}

\* =================================================================== claims
\* the handle exists and no constructor step is pending
Constructed == pc \notin {"new", "version", "init_radio", "dead"}

\* no driver operation is in progress on a constructed handle
Quiescent == pc \in {"idle", "closed"}

\* the positions inside _set_mode
SmPcs == {"sm_check", "sm_pa1_off", "sm_pa2_off", "sm_opmode", "sm_pa1_on",
          "sm_pa2_on", "sm_poll", "sm_diag"}

\* the bytes of the write transaction for register r and value v
W(r, v) == <<BitOr80(r), v>>

\* the write transactions of the current / last _set_mode call
SmSeg == SubSeq(wlog, sm_base + 1, Len(wlog))

\* positions of seg that write register r
WritesOf(seg, r) == {i \in 1..Len(seg) : seg[i][1] = BitOr80(r)}

BoostEnabled ==
    chip[REG_TESTPA1] = BOOST_ON_PA1 /\ chip[REG_TESTPA2] = BOOST_ON_PA2

\* C1: on a constructed handle the boost registers are in their enabled state
\* (TESTPA1 = 0x5D, TESTPA2 = 0x7C) only while the operating-mode register
\* holds Transmit.
C1_BoostOnlyInTransmit ==
    (Constructed /\ BoostEnabled) => chip[REG_OPMODE] = MODE_TX

\* C2: whenever no driver operation is in progress, the recorded mode equals
\* the mode last written to the operating-mode register.
C2_RecordedModeIsChipMode ==
    Quiescent => mode = chip[REG_OPMODE]

\* C3: every operation returns: whatever the chip answers to the status polls,
\* the calling thread is always eventually back outside the driver.
C3_OperationsReturn ==
    []<>(pc \in {"idle", "closed", "dead"})

\* C4: a send that returns the timeout result False leaves the recorded mode
\* and the operating-mode register at Standby.
C4_SendTimeoutLeavesStandby ==
    (pc = "idle" /\ op = "send" /\ result = "False")
        => (mode = MODE_STANDBY /\ chip[REG_OPMODE] = MODE_STANDBY)

\* C5: however send or receive ends, a raised bus failure included, the
\* recorded mode and the operating-mode register are Standby when control is
\* back with the caller.
C5_EveryEndLeavesStandby ==
    (build \in {"tx", "rx"} /\ pc = "idle" /\ op \in {"send", "receive"})
        => (mode = MODE_STANDBY /\ chip[REG_OPMODE] = MODE_STANDBY)

\* C6: a _set_mode(X) entered while the recorded mode is X makes no bus
\* exchange and changes no handle field, and a _set_mode(X) that returned has
\* recorded X, so the second of two calls in a row is such a call.
C6_SetModeIdempotent ==
    /\ (pc = "idle" /\ op = "set_mode" /\ result = "ok") => mode = sm_target
    /\ (op = "set_mode" /\ sm_from = sm_target /\ result # "TransportError")
          => /\ pc \in {"sm_check", "idle"}
             /\ wlog = <<>>
             /\ xfers = 0
             /\ mode = sm_from
    /\ (pc \in SmPcs /\ sm_from = sm_target)
          => (pc = "sm_check" /\ Len(wlog) = sm_base /\ mode = sm_from)

\* a direct _set_mode(MODE_RX) on a handle already recorded in Receive returned
C6_Witness ==
    /\ build = "tx" /\ pc = "idle" /\ op = "set_mode" /\ result = "ok"
    /\ sm_from = MODE_RX /\ sm_target = MODE_RX /\ wlog = <<>>

\* C7: in a _set_mode that leaves the recorded mode Transmit on a high-power
\* handle, TESTPA1 = 0x55 and TESTPA2 = 0x70 are written, in this order, before
\* the operating-mode register is written.
C7_BoostOffBeforeModeWrite ==
    (build = "tx" /\ is_high_power /\ pc \in SmPcs /\ sm_from = MODE_TX)
        => \A k \in WritesOf(SmSeg, REG_OPMODE) :
              /\ k = 3
              /\ SmSeg[1] = W(REG_TESTPA1, BOOST_OFF_PA1)
              /\ SmSeg[2] = W(REG_TESTPA2, BOOST_OFF_PA2)

\* a high-power handle leaving Transmit for Standby has written the mode register
C7_Witness ==
    /\ build = "tx" /\ is_high_power /\ pc = "sm_poll"
    /\ sm_from = MODE_TX /\ sm_target = MODE_STANDBY
    /\ SmSeg = <<W(REG_TESTPA1, BOOST_OFF_PA1), W(REG_TESTPA2, BOOST_OFF_PA2),
                 W(REG_OPMODE, MODE_STANDBY)>>

\* C8: inside _set_mode a boost-enable write (TESTPA1 = 0x5D, TESTPA2 = 0x7C)
\* happens only for target Transmit and only after the operating-mode write of
\* Transmit; entering Transmit on a high-power handle, both follow that write.
C8_BoostOnAfterModeWrite ==
    (pc \in SmPcs) =>
        /\ \A i \in 1..Len(SmSeg) :
              SmSeg[i] \in {W(REG_TESTPA1, BOOST_ON_PA1), W(REG_TESTPA2, BOOST_ON_PA2)}
                 => /\ sm_target = MODE_TX
                    /\ \E j \in 1..(i - 1) : SmSeg[j] = W(REG_OPMODE, MODE_TX)
        /\ (build = "tx" /\ is_high_power /\ sm_target = MODE_TX
              /\ pc \in {"sm_poll", "sm_diag"})
              => \E j \in 1..Len(SmSeg) :
                    /\ SmSeg[j] = W(REG_OPMODE, MODE_TX)
                    /\ Len(SmSeg) = j + 2
                    /\ SmSeg[j + 1] = W(REG_TESTPA1, BOOST_ON_PA1)
                    /\ SmSeg[j + 2] = W(REG_TESTPA2, BOOST_ON_PA2)

\* a high-power handle entering Transmit from Standby polls with boost enabled
C8_Witness ==
    /\ build = "tx" /\ is_high_power /\ pc = "sm_poll"
    /\ sm_from = MODE_STANDBY /\ sm_target = MODE_TX
    /\ SmSeg = <<W(REG_OPMODE, MODE_TX), W(REG_TESTPA1, BOOST_ON_PA1),
                 W(REG_TESTPA2, BOOST_ON_PA2)>>

\* C9: once the deadline has ended the mode-ready loop, _set_mode polls no
\* more, has written the operating-mode register exactly once, with the
\* target, and (unless a bus exchange itself failed) goes on without an error
\* to record the target as the mode.
C9_ModeTimeoutIsSoft ==
    sm_timedout =>
        /\ pc # "sm_poll"
        /\ \E k \in 1..Len(SmSeg) :
              /\ WritesOf(SmSeg, REG_OPMODE) = {k}
              /\ SmSeg[k] = W(REG_OPMODE, sm_target)
        /\ result \in {"none", "ok", "True", "False", "None", "payload",
                       "TransportError"}
        /\ (pc # "sm_diag" /\ result # "TransportError") => mode = sm_target

\* a direct _set_mode to another mode timed out and returned normally
C9_Witness ==
    /\ sm_timedout /\ pc = "idle" /\ op = "set_mode" /\ result = "ok"
    /\ sm_from # sm_target /\ mode = sm_target /\ chip[REG_OPMODE] = sm_target

\* C10: send writes the FIFO in one transaction [FIFO | 0x80, length, payload]
\* after _set_mode(MODE_STANDBY) and before the operating-mode write of
\* Transmit, polls only after that write, and the operating-mode register does
\* not hold Transmit when the FIFO is written.
C10_SendOrder ==
    (build = "tx" /\ op = "send") =>
        /\ (pc = "s_dbg2") =>
              /\ wlog[Len(wlog)] = <<BitOr80(REG_FIFO), Len(msg)>> \o msg
              /\ WritesOf(wlog, REG_FIFO) = {Len(wlog)}
              /\ chip[REG_OPMODE] # MODE_TX
        /\ (pc = "s_poll") =>
              \E i, j \in 1..Len(wlog) :
                  /\ i < j
                  /\ WritesOf(wlog, REG_FIFO) = {i}
                  /\ wlog[j] = W(REG_OPMODE, MODE_TX)

\* C11: whatever the length of the message handed to send, the FIFO burst of
\* that send is [FIFO | 0x80][n][the first n bytes of the message] with
\* n = min(len(message), 60), in avionics_tx and in integrated_avionics.
C11_SendFramesFirst60 ==
    (op = "send" /\ pc \in {"s_dbg2", "i_tx"}) =>
        LET n == IF msg_in < 60 THEN msg_in ELSE 60
        IN  wlog[Len(wlog)] =
                <<BitOr80(REG_FIFO), n>> \o SubSeq(Message(msg_in), 1, n)

\* C12: an avionics_tx send whose poll loop saw PacketSent, and in which no bus
\* exchange failed, returns True, and only such a send returns True; at that
\* return self.mode and the operating-mode register are Standby.
C12_SentReturnsTrueInStandby ==
    (build = "tx" /\ op = "send" /\ pc = "idle") =>
        /\ (sent_seen /\ result # "TransportError") => result = "True"
        /\ result = "True" =>
              /\ sent_seen
              /\ mode = MODE_STANDBY
              /\ chip[REG_OPMODE] = MODE_STANDBY

\* a 60-byte message was sent, PacketSent was seen and send returned True
C12_Witness ==
    /\ build = "tx" /\ op = "send" /\ pc = "idle" /\ result = "True"
    /\ sent_seen /\ Len(msg) = MAX_SEND_LEN
    /\ mode = MODE_STANDBY /\ chip[REG_OPMODE] = MODE_STANDBY

\* the frame whose PayloadReady the last poll of this receive saw, once its
\* length byte has been read
FrameLengthRead ==
    build = "rx" /\ op = "receive" /\ frame_base >= 0 /\ Len(xlog) >= 2

\* the bus writes of this receive since that poll
FrameWrites == SubSeq(wlog, frame_base + 1, Len(wlog))

\* C13: when PayloadReady is set and the length byte is 0 or above 66, no
\* payload is read or returned for that frame; receive writes the operating
\* mode twice, Standby then Receive, and is listening again (recorded mode and
\* chip in Receive) when it goes on with its loop; a receive that returns at
\* all returns a payload of valid length or returns None at the timeout.
C13_CorruptLengthIsFlushed ==
    /\ (FrameLengthRead /\ (length = 0 \/ length > MAX_RX_LEN)) =>
          /\ Len(xlog) = 2
          /\ rxbuf = <<>>
          /\ result # "payload"
          /\ pc \in {"r_dbg", "q_trig", "q_poll", "q_val", "r_tmo"} =>
                /\ Len(FrameWrites) >= 2
                /\ FrameWrites[1] = W(REG_OPMODE, MODE_STANDBY)
                /\ FrameWrites[2] = W(REG_OPMODE, MODE_RX)
                /\ WritesOf(FrameWrites, REG_OPMODE) = {1, 2}
                /\ mode = MODE_RX
                /\ chip[REG_OPMODE] = MODE_RX
    /\ (build = "rx" /\ op = "receive" /\ pc = "idle"
            /\ result # "TransportError") =>
          \/ result = "payload" /\ 0 < length /\ length <= MAX_RX_LEN
                /\ Len(rxbuf) = length
          \/ result = "None" /\ rticks >= rtimeout

\* a length byte of 200 was read and flushed; receive is back in its loop
C13_Witness ==
    /\ FrameLengthRead /\ length = 200 /\ pc = "r_dbg"
    /\ FrameWrites = <<W(REG_OPMODE, MODE_STANDBY), W(REG_OPMODE, MODE_RX)>>
    /\ mode = MODE_RX /\ chip[REG_OPMODE] = MODE_RX

\* C14: when PayloadReady is set and the length byte L satisfies 0 < L <= 66,
\* the next exchange is one burst read [REG_FIFO] + L zero bytes, the only
\* one for that frame; the payload is the L bytes that follow the first byte
\* of its response, in order; and receive returns it with the recorded mode
\* and the operating-mode register in Standby.
C14_ValidLengthReturnsPayload ==
    (FrameLengthRead /\ 0 < length /\ length <= MAX_RX_LEN) =>
        /\ (Len(xlog) = 2 /\ pc # "idle") => pc = "r_fifo"
        /\ Len(xlog) > 2 =>
              /\ Len(xlog) = 3
              /\ xlog[3] = <<REG_FIFO>> \o [i \in 1..length |-> 0]
              /\ Len(resp) = length + 1
              /\ rxbuf = [i \in 1..length |-> resp[i + 1]]
        /\ (pc = "idle" /\ result # "TransportError") =>
              /\ result = "payload"
              /\ Len(xlog) = 3
              /\ mode = MODE_STANDBY
              /\ chip[REG_OPMODE] = MODE_STANDBY

\* a 66-byte frame starting with byte 65 was read and returned
C14_Witness ==
    /\ FrameLengthRead /\ length = MAX_RX_LEN /\ pc = "idle"
    /\ result = "payload" /\ Len(rxbuf) = MAX_RX_LEN
    /\ resp[2] = 65 /\ rxbuf[1] = 65 /\ rxbuf[MAX_RX_LEN] = 130
    /\ mode = MODE_STANDBY /\ chip[REG_OPMODE] = MODE_STANDBY

\* C15: receive's loop never runs past its timeout; a receive that returns
\* returns a payload or None; it returns None only at the timeout, without a
\* payload, and then self.mode and the operating-mode register are Standby.
C15_TimeoutReturnsNoneInStandby ==
    (build = "rx" /\ op = "receive") =>
        /\ rticks <= rtimeout
        /\ pc = "idle" => result \in {"payload", "None", "TransportError"}
        /\ (pc = "idle" /\ result = "None") =>
              /\ rticks = rtimeout
              /\ rxbuf = <<>>
              /\ mode = MODE_STANDBY
              /\ chip[REG_OPMODE] = MODE_STANDBY

\* a receive with the longest timeout ran to it and returned None
C15_Witness ==
    /\ build = "rx" /\ op = "receive" /\ pc = "idle" /\ result = "None"
    /\ rtimeout = RecvTicks /\ rticks = RecvTicks
    /\ mode = MODE_STANDBY /\ chip[REG_OPMODE] = MODE_STANDBY

\* C16: once a poll of receive has seen PayloadReady, every read of the FIFO
\* register for that frame (length byte or burst) comes after a read of the
\* RSSI register, and so does every _set_mode call and every write of the
\* operating-mode register.
C16_RssiBeforeFifoAndModeChange ==
    (build = "rx" /\ op = "receive" /\ frame_base >= 0) =>
        /\ \A i \in 1..Len(xlog) :
              xlog[i][1] = REG_FIFO =>
                 \E j \in 1..(i - 1) : xlog[j] = <<REG_RSSIVALUE, 0>>
        /\ (pc \in SmPcs \/ WritesOf(FrameWrites, REG_OPMODE) # {}) =>
              (xlog # <<>> /\ xlog[1] = <<REG_RSSIVALUE, 0>>)

\* a frame was received: RSSI read (raw 200), length, burst, then Standby
C16_Witness ==
    /\ build = "rx" /\ op = "receive" /\ frame_base >= 0
    /\ pc = "idle" /\ result = "payload" /\ last_rssi = -100
    /\ Len(xlog) = 3 /\ xlog[1] = <<REG_RSSIVALUE, 0>>
    /\ xlog[2] = <<REG_FIFO, 0>>
    /\ FrameWrites = <<W(REG_OPMODE, MODE_STANDBY)>>

\* C17: a handle comes to exist only if the chip answers 0x24 for the version
\* register; for any other answer no register is ever written and the
\* constructor ends in the identity error, whose message carries that byte.
C17_OnlyVersion24Constructs ==
    /\ Constructed => chip_version = VERSION_OK
    /\ chip_version # VERSION_OK =>
          /\ wlog = <<>>
          /\ (pc = "dead" /\ result # "TransportError") =>
                (result = "IdentityError" /\ err_byte = chip_version)

\* C18: the constructor has driven the reset pin high, then low, and nothing
\* else, before the version read and every other bus exchange; and the first
\* register it writes is the operating mode, with Standby.
C18_ResetThenStandbyFirst ==
    /\ pc = "new" => (rst_log = <<>> /\ wlog = <<>> /\ xfers = 0)
    /\ pc # "new" => rst_log = <<"HIGH", "LOW">>
    /\ (op = "init" /\ wlog # <<>>) => wlog[1] = W(REG_OPMODE, MODE_STANDBY)

\* avionics_tx was constructed: pulse, version 0x24, Standby, then the tables
C18_Witness ==
    /\ build = "tx" /\ op = "init" /\ pc = "idle" /\ result = "ok"
    /\ chip_version = VERSION_OK /\ rst_log = <<"HIGH", "LOW">>
    /\ wlog[1] = W(REG_OPMODE, MODE_STANDBY)
    /\ wlog[2] = W(REG_DATAMODUL, 0)
    /\ WritesOf(wlog, REG_FRFMSB) # {} /\ WritesOf(wlog, REG_PALEVEL) # {}

\* C19: when close comes to release the bus, and ever after, the
\* operating-mode register holds Sleep; once the bus is released the handle
\* is finished and exchanges nothing more.
C19_CloseSleepsThenReleases ==
    /\ pc = "c_close" => chip[REG_OPMODE] = MODE_SLEEP
    /\ ~bus_open => (pc = "closed" /\ chip[REG_OPMODE] = MODE_SLEEP)

\* C20: a completed _set_tx_power(power) on avionics_tx has written, for
\* p = power clamped to -2..20: on a high-power handle with p >= 18, OCP 0x0F
\* (protection off), PALEVEL 0x60 | (p + 11) and the boost pair 0x5D, 0x7C; on
\* a high-power handle with p < 18, OCP 0x1A (protection on), PALEVEL
\* 0x60 | (p + 14) and the boost pair at its normal 0x55, 0x70; on any other
\* handle PALEVEL 0x80 | (p + 18) alone.
C20_TxPowerWrites ==
    (build = "tx" /\ op = "set_tx_power" /\ pc = "idle" /\ result = "ok") =>
        LET p == IF tx_power < -2 THEN -2
                 ELSE IF tx_power > 20 THEN 20 ELSE tx_power
        IN  IF is_high_power /\ p >= 18
            THEN wlog = <<W(REG_OCP, 15), W(REG_PALEVEL, BitOr(96, p + 11)),
                          W(REG_TESTPA1, 93), W(REG_TESTPA2, 124)>>
            ELSE IF is_high_power
            THEN wlog = <<W(REG_OCP, 26), W(REG_PALEVEL, BitOr(96, p + 14)),
                          W(REG_TESTPA1, 85), W(REG_TESTPA2, 112)>>
            ELSE wlog = <<W(REG_PALEVEL, BitOr(128, p + 18))>>

\* a request of 22 dBm on a high-power handle was clamped to 20: PALEVEL 0x7F
C20_Witness ==
    /\ build = "tx" /\ op = "set_tx_power" /\ pc = "idle" /\ result = "ok"
    /\ is_high_power /\ tx_power = 22
    /\ Len(wlog) = 4 /\ wlog[2] = W(REG_PALEVEL, 127)

\* the value of the PALEVEL write of the current operation
PaLevelWritten ==
    LET i == CHOOSE i \in 1..Len(wlog) : wlog[i][1] = BitOr80(REG_PALEVEL)
    IN  wlog[i][2]

\* C21: after a completed _set_tx_power(power) with power in -2..20, on a
\* high-power or on any other handle, the value written to PALEVEL is a byte
\* (0..255), and decoding it (the 5-bit OutputPower field plus the offset of the
\* amplifier path chosen: -11 with boost, -14 for PA1+PA2, -18 otherwise) gives
\* a power within 1 dBm of the request.
C21_PowerEncodingRoundTrip ==
    (/\ build = "tx" /\ op = "set_tx_power" /\ pc = "idle" /\ result = "ok"
     /\ tx_power \in -2..20) =>
        LET field  == PaLevelWritten % 32
            offset == IF is_high_power /\ tx_power >= 18 THEN -11
                      ELSE IF is_high_power THEN -14 ELSE -18
            decoded == field + offset
        IN  /\ PaLevelWritten \in 0..255
            /\ decoded - tx_power \in -1..1

\* the current operation has written the three frequency registers
HasFrf ==
    \A reg \in {REG_FRFMSB, REG_FRFMID, REG_FRFLSB} :
        \E i \in 1..Len(wlog) : wlog[i][1] = BitOr80(reg)

\* where the current operation wrote register reg, and what it wrote
WrittenAt(reg) == CHOOSE i \in 1..Len(wlog) : wlog[i][1] = BitOr80(reg)
Written(reg) == wlog[WrittenAt(reg)][2]

\* the frequency word in the three registers
FrfWritten ==
    Written(REG_FRFMSB) * 65536 + Written(REG_FRFMID) * 256
        + Written(REG_FRFLSB)

\* C22: once _set_frequency(f) (called directly, or by the constructor with
\* 433 MHz) has written its three registers, the word in them decodes to a
\* frequency within one step of f: |word * 32 MHz / 2^19 - f| <= 32 MHz / 2^19,
\* which for f in kHz is |word * 125 - f * 2048| <= 125.
C22_FrequencyRoundTrip ==
    (op \in {"init", "set_frequency"} /\ HasFrf) =>
        FrfWritten * 125 - freq_khz * 2048 \in -125..125

\* _set_frequency(915.002) has returned: the word is 14991392 (0xE4C020)
C22_Witness ==
    /\ op = "set_frequency" /\ pc = "idle" /\ result = "ok"
    /\ freq_khz = 915002
    /\ HasFrf /\ FrfWritten = 14991392

\* the frequency registers
FrfRegs == {REG_FRFMSB, REG_FRFMID, REG_FRFLSB}

\* the exchange the constructor made last was a read of a frequency register
InitReadFrf ==
    /\ op = "init" /\ ip > 1
    /\ LET prog == InitProgram(build, is_high_power)
       IN  /\ ip - 1 <= Len(prog)
           /\ prog[ip - 1][1] = "r"
           /\ prog[ip - 1][2] \in FrfRegs

\* C23: the frequency word _set_frequency(f) writes (called directly, or by
\* the constructor of any of the three scripts) is f / (32 MHz / 2^19)
\* truncated, word <= f / step < word + 1; it fits in 24 bits, one byte per
\* register; the registers are written in the order FRFMSB, FRFMID, FRFLSB, one
\* after the other; and none of them is read back before all three are written.
C23_FrequencyWordTruncatedMsbFirst ==
    (op \in {"init", "set_frequency"}) =>
        /\ HasFrf =>
              /\ FrfWritten * 125 <= freq_khz * 2048
              /\ freq_khz * 2048 < (FrfWritten + 1) * 125
              /\ \A reg \in FrfRegs : Written(reg) \in 0..255
              /\ FrfWritten < 16777216
              /\ WrittenAt(REG_FRFMID) = WrittenAt(REG_FRFMSB) + 1
              /\ WrittenAt(REG_FRFLSB) = WrittenAt(REG_FRFMSB) + 2
        /\ \A i \in 1..Len(wlog) :
              /\ wlog[i][1] = BitOr80(REG_FRFMID) =>
                    i > 1 /\ wlog[i - 1][1] = BitOr80(REG_FRFMSB)
              /\ wlog[i][1] = BitOr80(REG_FRFLSB) =>
                    i > 1 /\ wlog[i - 1][1] = BitOr80(REG_FRFMID)
        /\ (op = "set_frequency" /\ ~fault /\ xfers > Len(wlog)) => HasFrf
        /\ InitReadFrf => HasFrf

\* _set_frequency(433.002) has written 0x6C, 0x40, 0x20 (7094304, where the
\* nearest word is 7094305) and has read the first register back
C23_Witness ==
    /\ op = "set_frequency" /\ pc = "f_step" /\ xfers = 4
    /\ freq_khz = 433002
    /\ wlog = <<W(REG_FRFMSB, 108), W(REG_FRFMID, 64), W(REG_FRFLSB, 32)>>

\* C24: the RSSI that receive stores in last_rssi (line 257), and the RSSI
\* that read_rssi returns for the periodic report (line 236), is -(r div 2) for
\* the byte r the RSSI register answered (the second byte of the response); for
\* r = 200 it is -100.
C24_RssiIsMinusHalfRaw ==
    [][/\ (pc = "r_rssi" /\ pc' = "r_len") =>
             /\ last_rssi' = -(rresp'[2] \div 2)
             /\ rresp'[2] = 200 => last_rssi' = -100
       /\ (pc = "q_val" /\ pc' = "r_tmo") =>
             /\ rssi_now' = -(rresp'[2] \div 2)
             /\ rresp'[2] = 200 => rssi_now' = -100]_vars

\* a packet arrived while the RSSI register read 200: last_rssi is -100
C24_Witness ==
    /\ op = "receive" /\ pc = "r_len"
    /\ rresp = <<0, 200>>
    /\ last_rssi = -100

\* the write transactions of a constructor that ran to its end
InitWrites ==
    LET IsWrite(e) == e[1] = "w"
        ws == SelectSeq(InitProgram(build, is_high_power), IsWrite)
    IN  [i \in 1..Len(ws) |-> W(ws[i][2], ws[i][3])]

\* C25: when a register of the configuration table reads back different from
\* what _init_radio wrote, a warning is printed and nothing else happens: the
\* constructor is not abandoned (short of a bus exchange that raises), and when
\* it ends it has made every write of the table, of the frequency, of the
\* power setting and of the addresses, and the handle exists.
C25_ReadbackMismatchOnlyWarns ==
    (op = "init" /\ warned /\ ~fault) =>
        /\ pc \in {"init_radio", "idle"}
        /\ result \notin {"ConfigError", "IdentityError"}
        /\ pc = "init_radio" => wlog = SubSeq(InitWrites, 1, Len(wlog))
        /\ pc = "idle" => result = "ok" /\ wlog = InitWrites

\* the constructor of the ground station has ended after a mismatch
C25_Witness ==
    /\ build = "rx" /\ op = "init" /\ pc = "idle" /\ result = "ok"
    /\ warned
    /\ wlog = InitWrites

\* C26: when a bus exchange of a driver operation raises, the operation ends
\* there with that exception as its outcome: it is not at any later position
\* of its code (no retry, no further exchange), and its outcome is not True,
\* False, None, a payload or a normal return.
C26_BusFailurePropagates ==
    fault =>
        /\ result = "TransportError"
        /\ pc \in {"idle", "dead"}
        /\ pc = "dead" <=> op = "init"

\* the bus failed in send after the FIFO had been written
C26_Witness ==
    /\ fault /\ op = "send" /\ pc = "idle" /\ result = "TransportError"
    /\ \E i \in 1..Len(wlog) : wlog[i][1] = BitOr80(REG_FIFO)

\* C27: every register write is one transaction of exactly two bytes, the
\* address with bit 7 set and the value; every register read is one transaction
\* of exactly two bytes, the address with bit 7 cleared and 0x00, and what it
\* returns is the second byte of the response; the FIFO read of n bytes is one
\* transaction of the FIFO address and n zero bytes, and it returns the n bytes
\* that follow the first byte of the response.
C27_RegisterAccessProtocol ==
    /\ \A i \in 1..Len(wlog) :
          /\ wlog[i][1] \in 128..255
          /\ wlog[i][1] # BitOr80(REG_FIFO) =>
                Len(wlog[i]) = 2 /\ wlog[i][2] \in 0..255
    /\ \A i \in 1..Len(xlog) :
          /\ xlog[i][1] \in 0..127
          /\ i <= 2 => Len(xlog[i]) = 2 /\ xlog[i][2] = 0
    /\ (op = "receive" /\ pc = "r_len") =>
          /\ xlog = <<ReadRequest(REG_RSSIVALUE)>>
          /\ Len(rresp) = 2 /\ last_rssi = -(rresp[2] \div 2)
    /\ (op = "receive" /\ pc = "r_fifo") =>
          /\ xlog = <<ReadRequest(REG_RSSIVALUE), ReadRequest(REG_FIFO)>>
          /\ Len(rresp) = 2 /\ length = rresp[2]
    /\ (op = "receive" /\ pc = "idle" /\ result = "payload") =>
          /\ Len(xlog) = 3
          /\ xlog[3] = <<REG_FIFO>> \o [i \in 1..length |-> 0]
          /\ Len(resp) = length + 1
          /\ Len(rxbuf) = length
          /\ \A i \in 1..length : rxbuf[i] = resp[i + 1]

\* receive has read the length byte 66 and returned the 66 bytes of the burst
C27_Witness ==
    /\ op = "receive" /\ pc = "idle" /\ result = "payload"
    /\ rresp = <<0, MAX_RX_LEN>>
    /\ Len(xlog) = 3 /\ Len(xlog[3]) = MAX_RX_LEN + 1
    /\ Len(rxbuf) = MAX_RX_LEN

\* the power last configured on this chip was 18 dBm or more on the boosted
\* path: _set_tx_power then, and only then, switches the over-current
\* protection off (OCP 0x0F)
ConfiguredHighPower == is_high_power /\ chip[REG_OCP] = 15

\* C28: when _set_mode(MODE_TX) of avionics_tx has written the mode register
\* and waits for the chip, the boost registers are in their enabled state
\* exactly if the handle is high-power capable and the power last configured
\* through _set_tx_power was 18 dBm or more; after a configuration below
\* 18 dBm no entry into Transmit writes the boost registers.
C28_BoostFollowsConfiguredPower ==
    build = "tx" =>
        /\ (pc = "sm_poll" /\ sm_target = MODE_TX) =>
              (BoostEnabled <=> ConfiguredHighPower)
        /\ pc \in {"sm_pa1_on", "sm_pa2_on"} => ConfiguredHighPower

\* C29: in the integrated script no step of the GPS reader thread is a bus
\* exchange or touches the radio handle: a step that moves the GPS thread, takes
\* or releases its lock or stores a satellite count leaves the handle, the chip
\* and the position of the radio operation under way as they were, so every
\* bus exchange is a step of the thread that owns the handle and none begins
\* inside another.
C29_OnlyRadioThreadOnBus ==
    [][(gps_pc' # gps_pc \/ lock' # lock \/ sats' # sats) =>
           /\ xfers' = xfers /\ wlog' = wlog /\ chip' = chip
           /\ bus_open' = bus_open /\ mode' = mode
           /\ pc' = pc /\ op' = op /\ result' = result]_vars

\* the GPS thread holds its lock, having stored a satellite count before,
\* while send of the integrated driver is between two bus exchanges
C29_Witness ==
    /\ build = "ia" /\ gps_pc = "update" /\ lock = "gps" /\ sats = 4
    /\ op = "send" /\ pc = "i_tx" /\ xfers > 0

\* the frame avionics_tx.send writes to the FIFO for an n-byte message
SentFrame(n) == Frame(Truncate(Message(n)))

\* the receiver's FIFO holds the frame send wrote for an n-byte message: the
\* length byte read is the frame's first byte, and the burst, once made,
\* answers with the rest of the frame
FifoHolds(n) ==
    /\ FrameLengthRead
    /\ length = Head(SentFrame(n))
    /\ Len(xlog) > 2 => Tail(resp) = Tail(SentFrame(n))

\* C30: for every n in 0..60, when the FIFO of the ground station holds, with
\* PayloadReady set, the frame that send writes for an n-byte message, receive
\* goes on to read the payload and, unless a bus exchange raises, returns
\* exactly the n bytes of the message.
C30_SendReceiveRoundTrip ==
    \A n \in 0..MAX_SEND_LEN :
        FifoHolds(n) =>
            /\ (Len(xlog) = 2 /\ pc # "idle") => pc = "r_fifo"
            /\ (pc = "idle" /\ result # "TransportError") =>
                  result = "payload" /\ rxbuf = Message(n)

\* the size of the chip's FIFO, which is also the payload length configured
FIFO_SIZE == 66

\* C31: in every send, of avionics_tx and of integrated_avionics, the burst
\* written to the FIFO (the length byte and the payload, after the address
\* byte) is at most 66 bytes long, and the length byte is in 0..255.
C31_FifoBurstFits ==
    op = "send" =>
        \A i \in 1..Len(wlog) :
            wlog[i][1] = BitOr80(REG_FIFO) =>
                /\ Len(wlog[i]) - 1 <= FIFO_SIZE
                /\ wlog[i][2] \in 0..255

\* the registers that fix the link: bit rate, frequency deviation, receiver
\* bandwidth, sync configuration and word, packet format, payload length, FIFO
\* threshold, carrier frequency
LinkRegs ==
    {REG_BITRATEMSB, REG_BITRATELSB, REG_FDEVMSB, REG_FDEVLSB, REG_RXBW,
     REG_SYNCCONFIG, REG_SYNCVALUE1, REG_SYNCVALUE2, REG_PACKETCONFIG1,
     REG_PAYLOADLENGTH, REG_FIFOTHRESH, REG_FRFMSB, REG_FRFMID, REG_FRFLSB}

\* the values the constructor of script b writes to register reg
InitValues(b, reg) ==
    LET prog == InitProgram(b, TRUE)
    IN  {prog[i][3] : i \in {j \in 1..Len(prog) :
                                 prog[j][1] = "w" /\ prog[j][2] = reg}}

\* C32: a constructor that has run to its end has written each link register
\* (bit rate, deviation, bandwidth, sync, packet format, payload length, FIFO
\* threshold, the three frequency bytes for 433 MHz) exactly once, with the
\* value that the constructor of each of the three scripts writes to it: the
\* transmitter, the ground station and the integrated driver configure the
\* same link.
C32_SameLinkParameters ==
    (op = "init" /\ pc = "idle" /\ result = "ok") =>
        \A reg \in LinkRegs :
            /\ Cardinality(WritesOf(wlog, reg)) = 1
            /\ \A b \in {"tx", "rx", "ia"} : InitValues(b, reg) = {Written(reg)}

\* the integrated driver is constructed: 4.8 kbps (0x1A0B), deviation 0x52 and
\* the frequency word 0x6C4000 are on the chip
C32_Witness ==
    /\ build = "ia" /\ op = "init" /\ pc = "idle" /\ result = "ok"
    /\ Written(REG_BITRATEMSB) = 26 /\ Written(REG_BITRATELSB) = 11
    /\ Written(REG_FDEVLSB) = 82
    /\ Written(REG_FRFMSB) = 108 /\ Written(REG_FRFMID) = 64
    /\ Written(REG_FRFLSB) = 0

\* C33: a receive that returns None, whether it saw no frame at all or only
\* frames with a corrupt length byte, leaves self.last_rssi as it was when
\* receive was called; a receive that returns a payload has read that frame's
\* RSSI as the first exchange of the frame.
C33_NoneLeavesLastRssi ==
    (build = "rx" /\ op = "receive" /\ pc = "idle") =>
        /\ result = "None" => last_rssi = rssi_at_call
        /\ result = "payload" => xlog[1] = ReadRequest(REG_RSSIVALUE)

\* the addresses _set_mode may write: the operating mode and the boost pair
ModeRegs == {BitOr80(REG_OPMODE), BitOr80(REG_TESTPA1), BitOr80(REG_TESTPA2)}

\* C34: every write of a _set_mode call, whoever called it, goes to the
\* operating-mode register or to one of the two boost registers; a direct
\* _set_mode, a send and a close write nothing else, but for the one FIFO burst
\* of send: no frequency, power-level, over-current or packet-configuration
\* register is written after the constructor by any of them.
C34_SetModeLeavesConfiguration ==
    /\ pc \in SmPcs => \A i \in 1..Len(SmSeg) : SmSeg[i][1] \in ModeRegs
    /\ op \in {"set_mode", "close"} =>
          \A i \in 1..Len(wlog) : wlog[i][1] \in ModeRegs
    /\ op = "send" =>
          /\ \A i \in 1..Len(wlog) :
                wlog[i][1] \in ModeRegs \cup {BitOr80(REG_FIFO)}
          /\ Cardinality(WritesOf(wlog, REG_FIFO)) <= 1

\* a send on a high-power handle has returned True: Standby, the FIFO burst,
\* Transmit, boost on, boost off, Standby, and nothing else
C34_Witness ==
    /\ build = "tx" /\ is_high_power
    /\ op = "send" /\ pc = "idle" /\ result = "True"
    /\ Cardinality(WritesOf(wlog, REG_FIFO)) = 1
    /\ Cardinality(WritesOf(wlog, REG_TESTPA1)) = 2
    /\ Cardinality(WritesOf(wlog, REG_OPMODE)) >= 2

\* C35: a _set_mode(X) called right after a _set_mode(X) that returned from a
\* timed-out mode-ready loop finds X recorded as the mode and returns at once:
\* it writes no register, the operating-mode register included, and polls
\* nothing, so no exchange of the retry reaches the chip.
C35_RetryAfterTimeoutIsNoOp ==
    sm_retry =>
        /\ mode = sm_target /\ sm_from = sm_target
        /\ pc \in SmPcs => pc = "sm_check" /\ Len(wlog) = sm_base
        /\ op = "set_mode" =>
              /\ pc \in {"sm_check", "idle"}
              /\ wlog = <<>> /\ xfers = 0
              /\ pc = "idle" => result = "ok"

\* the retry of a timed-out _set_mode(MODE_RX) has returned without an
\* exchange
C35_Witness ==
    /\ sm_retry /\ op = "set_mode" /\ pc = "idle" /\ result = "ok"
    /\ sm_target = MODE_RX /\ mode = MODE_RX
    /\ wlog = <<>> /\ xfers = 0

\* receive is at its timeout test, or past it on the way to return None
AtOrPastTimeout ==
    \/ pc = "r_tmo"
    \/ pc \in SmPcs /\ ret = "ret_none"
    \/ pc = "idle" /\ result = "None"

\* C36: receive tests its timeout, and returns None, only after it has read
\* IRQFLAGS2 for PayloadReady at least once, also with a timeout of 0; and in
\* the iteration in which the deadline has passed a frame that is ready and has
\* a valid length is read and returned (bus errors aside): the timeout test is
\* not reached for it.
C36_PollBeforeTimeout ==
    (build = "rx" /\ op = "receive") =>
        /\ AtOrPastTimeout => irq2 # "none"
        /\ pc = "r_loop" => (irq2 = "none" <=> rticks = 0)
        /\ (/\ FrameLengthRead /\ ValidLength(length)
            /\ RecvDeadline(rticks, rtimeout)) =>
              /\ irq2 = "ready"
              /\ ~AtOrPastTimeout
              /\ (pc = "idle" /\ ~fault) => result = "payload"

\* receive(timeout = 0) found a frame in its first iteration and returned it
C36_Witness ==
    /\ build = "rx" /\ op = "receive" /\ pc = "idle" /\ result = "payload"
    /\ rtimeout = 0 /\ rticks = 0
    /\ irq2 = "ready" /\ Len(rxbuf) = length /\ length > 0


\* what the test of line 358 finds in a packet's own satellite count
FixOf(n) == IF n > 3 THEN "yes" ELSE "no"

\* C37: every read and every write of sensors.data, by the loop of main() and
\* by the GPS thread, is made by a thread that holds sensors.lock, so the
\* status decision of a pass agrees with the satellite count of its packet
C37_SharedDataUnderLock ==
    /\ main_pc \in {"imu_store", "mag_store", "packet"} => lock = "main"
    /\ MainRuns /\ main_pc = "status" => lock = "main"
    /\ gps_pc = "update" => lock = "gps"
    /\ sats_ok # "none" => sats_ok = FixOf(pkt_sats)

====
